---- MODULE Spec2Model ----
(***************************************************************************)
(* Model of the Halo 5 data importer add-on: the material batch            *)
(* (material_importer.py: main, apply_material_from_file,                  *)
(* process_binary_file, read_string_table, process_secondary_header,       *)
(* process_block, create_shader_in_blender) and the light batch            *)
(* (__init__.py: FILE_OT_import_lights.execute, light_importer.py:         *)
(* read_binary_file_and_create_lights, create_light).                      *)
(*                                                                         *)
(* A file is a length and a sparse map offset -> byte (absent bytes are    *)
(* zero).  Every byte of the modelled files is below 128, so a u32 read at *)
(* any offset, aligned or not, fits TLC's integers.  A float is carried as *)
(* the u32 bit pattern of its four bytes.  Text is a sequence: of byte     *)
(* codes for the names of a string table, of one-character strings for     *)
(* the paths of the ID mapping.                                            *)
(***************************************************************************)
EXTENDS Integers, Sequences, FiniteSets, TLC

(***************************************************************************)
(* Bounds of the model.                                                    *)
(***************************************************************************)
MaxC0 == 2
MaxRecords == 2
MaxSlots == 2
MaxStrings == 5
MaxLightFiles == 2
MaxBlocks == 2
MaxLines == 3
MaxMaterials == 4
MaxRenames == 3
MaxNameBytes == 3
MaxChars == 5

(***************************************************************************)
(* Sequences of characters: str.endswith, str.replace, str.split.          *)
(***************************************************************************)
SeqMax(S) == CHOOSE x \in S : \A y \in S : y <= x
SeqMin(S) == CHOOSE x \in S : \A y \in S : x <= y

EndsWith(s, suf) ==
    /\ Len(s) >= Len(suf)
    /\ SubSeq(s, Len(s) - Len(suf) + 1, Len(s)) = suf

OccursAt(s, i, t) ==
    /\ i + Len(t) - 1 <= Len(s)
    /\ SubSeq(s, i, i + Len(t) - 1) = t

RECURSIVE ReplaceFrom(_, _, _, _)
ReplaceFrom(s, i, old, new) ==
    IF i > Len(s) THEN <<>>
    ELSE IF OccursAt(s, i, old)
         THEN new \o ReplaceFrom(s, i + Len(old), old, new)
         ELSE <<s[i]>> \o ReplaceFrom(s, i + 1, old, new)

\* str.replace(old, new): every non-overlapping occurrence, leftmost first
Replace(s, old, new) == ReplaceFrom(s, 1, old, new)

\* s.split(c)[-1]
SplitLast(s, c) ==
    LET at == {i \in 1..Len(s) : s[i] = c}
    IN  IF at = {} THEN s ELSE SubSeq(s, SeqMax(at) + 1, Len(s))

\* s.split(c)[0]
SplitFirst(s, c) ==
    LET at == {i \in 1..Len(s) : s[i] = c}
    IN  IF at = {} THEN s ELSE SubSeq(s, 1, SeqMin(at) - 1)

Backslash == "\\"
DotBitmap == <<".", "b", "i", "t", "m", "a", "p">>
DotPng == <<".", "p", "n", "g">>

\* material_importer.py: extract_filename_from_path
extract_filename_from_path(file_path) ==
    SplitFirst(SplitLast(file_path, Backslash), ".")

(***************************************************************************)
(* Binary files and the reads of struct.unpack over file.read.             *)
(***************************************************************************)
ByteAt(f, p) == IF p \in DOMAIN f.b THEN f.b[p] ELSE 0

\* file.read(n) at position p returns n bytes (a shorter read makes
\* struct.unpack raise struct.error)
Avail(f, p, n) == p >= 0 /\ p + n <= f.len

\* struct.unpack('<I', ...) of the four bytes at p
U32At(f, p) ==
    ByteAt(f, p) + 256 * ByteAt(f, p + 1) + 65536 * ByteAt(f, p + 2)
        + 16777216 * ByteAt(f, p + 3)

\* light_importer.py: multipliers
Multipliers == <<24, 16, 32, 20, 16, 8, 1, 1, 0, 0, 0, 0, 0>>

HeaderStart == 28
HeaderCount == 13
\* f.tell() after the thirteen reads
HeaderEnd == HeaderStart + 4 * HeaderCount

\* [read_u32(f) for _ in range(13)] after f.seek(28); u[i + 1] is u32_values[i]
HeaderCounts(f) == [i \in 1..HeaderCount |-> U32At(f, HeaderStart + 4 * (i - 1))]

RECURSIVE WeightedSum(_, _, _)
WeightedSum(u, m, n) ==
    IF n = 0 THEN 0 ELSE u[n] * m[n] + WeightedSum(u, m, n - 1)

\* the 13-term sum of the light decoder; a variant of the material decoder's
\* skip that weighs counts 6 and 7 as well
SkipBytes_AllThirteen(u) == WeightedSum(u, Multipliers, HeaderCount)

\* material_importer.py: skip_bytes of process_binary_file (six terms)
SkipBytes(u) ==
    u[1] * 24 + u[2] * 16 + u[3] * 32 + u[4] * 20 + u[5] * 16 + u[6] * 8

\* light_importer.py: total_skip (thirteen terms)
TotalSkip(u) == WeightedSum(u, Multipliers, HeaderCount)

(***************************************************************************)
(* The hash of a name.  mmh3.hash is a library function; the model keeps   *)
(* what the decoder relies on: it is a function of the text, the empty     *)
(* text hashes to 0, and different texts may collide.                      *)
(***************************************************************************)
RECURSIVE SumCodes(_)
SumCodes(s) == IF s = <<>> THEN 0 ELSE Head(s) + SumCodes(Tail(s))

murmur_hash_and_flip(s) == SumCodes(s) % 127

\* bytes.decode('ascii', errors='ignore')
DecodeAscii(s) == SelectSeq(s, LAMBDA c : c < 128)

\* a variant of the inner loop that keeps the terminator in the run
RECURSIVE ReadRun_KeepsTerminator(_, _)
ReadRun_KeepsTerminator(f, p) ==
    IF p >= f.len THEN [s |-> <<>>, pos |-> p]
    ELSE IF ByteAt(f, p) = 0 THEN [s |-> <<0>>, pos |-> p + 1]
    ELSE LET r == ReadRun_KeepsTerminator(f, p + 1)
         IN  [s |-> <<ByteAt(f, p)>> \o r.s, pos |-> r.pos]

\* the inner loop of read_string_table: bytes up to a null or the end of
\* the file; a read at the end of the file returns b'' and does not move
RECURSIVE ReadRun(_, _)
ReadRun(f, p) ==
    IF p >= f.len THEN [s |-> <<>>, pos |-> p]
    ELSE IF ByteAt(f, p) = 0 THEN [s |-> <<>>, pos |-> p + 1]
    ELSE LET r == ReadRun(f, p + 1)
         IN  [s |-> <<ByteAt(f, p)>> \o r.s, pos |-> r.pos]

\* one entry of the string table: (decoded_string, hashed_string)
StringEntry(run) ==
    LET decoded == DecodeAscii(run)
    IN  [text |-> decoded, hash |-> murmur_hash_and_flip(decoded)]

(***************************************************************************)
(* The ID mapping (the result of load_id_mapping) and the texture files.   *)
(* None is -1 for "normalized" and the empty text for "curve".             *)
(***************************************************************************)
NoneInt == 0 - 1

ShaderPath == <<"m", Backslash, "s", "h", ".", "x">>
BitmapKeptPath == <<"t">> \o DotBitmap
BitmapMissingPath == <<"u">> \o DotBitmap
NotBitmapPath == <<"v", ".", "x">>
\* a bitmap in a folder whose name holds ".bitmap" too
BitmapInnerPath == <<"d">> \o DotBitmap \o <<Backslash, "w">> \o DotBitmap

\* the tag IDs of the modelled mapping; "unmapped" is no key of it
Ids == [shader |-> 1, kept |-> 2, missing |-> 3, notbitmap |-> 4, inner |-> 5, unmapped |-> 9]

id_mapping ==
    (Ids.shader :> [path |-> ShaderPath, curve |-> <<>>, normalized |-> NoneInt])
    @@ (Ids.kept :> [path |-> BitmapKeptPath, curve |-> <<"s">>, normalized |-> 1])
    @@ (Ids.missing :> [path |-> BitmapMissingPath, curve |-> <<"l">>, normalized |-> 0])
    @@ (Ids.notbitmap :> [path |-> NotBitmapPath, curve |-> <<>>, normalized |-> NoneInt])
    @@ (Ids.inner :> [path |-> BitmapInnerPath, curve |-> <<"s">>, normalized |-> 1])

base_texture_path == <<"B">>

\* f"{base_texture_path}\\{full_texture_path}"
JoinTexturePath(base, rel) == base \o <<Backslash>> \o rel

\* the paths for which os.path.exists answers True
ExistingPaths ==
    { JoinTexturePath(base_texture_path, <<"t">> \o DotPng),
      JoinTexturePath(base_texture_path, <<"d">> \o DotPng \o <<Backslash, "w">> \o DotPng) }

PathExists(p) == p \in ExistingPaths

\* bpy.data.node_groups: the shader names that have a node group
NodeGroups == {<<"s", "h">>}

(***************************************************************************)
(* process_block: one parameter record at offset r.                        *)
(***************************************************************************)
\* the first string-table entry whose hash equals the hashed name
RECURSIVE MatchFrom(_, _, _)
MatchFrom(table, i, h) ==
    IF i > Len(table) THEN [found |-> FALSE, text |-> <<>>]
    ELSE IF table[i].hash = h THEN [found |-> TRUE, text |-> table[i].text]
    ELSE MatchFrom(table, i + 1, h)

MatchName(table, h) == MatchFrom(table, 1, h)

\* Python's truth value of matching_string: None and '' are false
Truthy(m) == m.found /\ m.text # <<>>

\* the bytes a record of this type reads, from the record's start to the
\* end of its last read: the name, the type, then the reads and seeks of
\* the type's branch up to its last read
NeededBytes(t) ==
    CASE t = 0 -> 4 + 4 + 4 + 8 + 4 + 4 + 20 + 16 + 8 + 36
      [] t = 4 -> 4 + 4 + 4 + 36 + 16
      [] t = 1 -> 4 + 4 + 4 + 52 + 4
      [] t = 3 -> 4 + 4 + 4 + 68 + 4
      [] t = 2 -> 4 + 4 + 4 + 68 + 4
      [] OTHER -> 4 + 4

\* a variant of the colour branch whose trailing seek is the bitmap's
ConsumedBytes_ColorSeeksAsBitmap(t) ==
    CASE t = 0 -> NeededBytes(0) + 124
      [] t = 4 -> NeededBytes(4) + 124
      [] t = 1 -> NeededBytes(1) + 164
      [] t = 3 -> NeededBytes(3) + 148
      [] t = 2 -> NeededBytes(2) + 148
      [] OTHER -> NeededBytes(t)

\* where the cursor is after a record of this type: the reads and the
\* trailing seek of the type's branch; no branch, no seek
ConsumedBytes(t) ==
    CASE t = 0 -> NeededBytes(0) + 124
      [] t = 4 -> NeededBytes(4) + 168
      [] t = 1 -> NeededBytes(1) + 164
      [] t = 3 -> NeededBytes(3) + 148
      [] t = 2 -> NeededBytes(2) + 148
      [] OTHER -> NeededBytes(t)

NoParam == [has |-> FALSE, val |-> [type |-> "none"]]
OneParam(v) == [has |-> TRUE, val |-> v]

\* a variant of the bitmap branch that keeps the texture whether or not
\* the file exists
BitmapParam_NoExistsCheck(f, r, mapping, base) ==
    LET bitmap_tag_id == U32At(f, r + 24)
        uv_scale == <<U32At(f, r + 64), U32At(f, r + 68)>>
        known == bitmap_tag_id \in DOMAIN mapping
        full == JoinTexturePath(base, Replace(mapping[bitmap_tag_id].path, DotBitmap, DotPng))
    IN  IF ~known \/ ~EndsWith(mapping[bitmap_tag_id].path, DotBitmap) THEN NoParam
        ELSE OneParam([type |-> "bitmap", value |-> full,
                       curve |-> mapping[bitmap_tag_id].curve,
                       uv_scale |-> uv_scale,
                       normalized |-> mapping[bitmap_tag_id].normalized])

\* parameter_type 0: the bitmap branch of process_block
BitmapParam(f, r, mapping, base) ==
    LET bitmap_tag_id == U32At(f, r + 24)
        uv_scale == <<U32At(f, r + 64), U32At(f, r + 68)>>
        known == bitmap_tag_id \in DOMAIN mapping
        full == JoinTexturePath(base, Replace(mapping[bitmap_tag_id].path, DotBitmap, DotPng))
    IN  IF ~known \/ ~EndsWith(mapping[bitmap_tag_id].path, DotBitmap) THEN NoParam
        ELSE IF PathExists(full)
             THEN OneParam([type |-> "bitmap", value |-> full,
                            curve |-> mapping[bitmap_tag_id].curve,
                            uv_scale |-> uv_scale,
                            normalized |-> mapping[bitmap_tag_id].normalized])
             ELSE NoParam

\* parameter_type 4: ARGB read in file order, emitted as RGBA
ColorParam(f, r, mapping, previous_id) ==
    LET argb == <<U32At(f, r + 48), U32At(f, r + 52), U32At(f, r + 56), U32At(f, r + 60)>>
    IN  OneParam([type |-> "color",
                  value |-> <<argb[2], argb[3], argb[4], argb[1]>>,
                  normalized |-> IF previous_id \in DOMAIN mapping
                                 THEN mapping[previous_id].normalized ELSE 1])

RealParam(f, r) == OneParam([type |-> "real", value |-> U32At(f, r + 64)])
BooleanParam(f, r) == OneParam([type |-> "boolean", value |-> (U32At(f, r + 80) # 0)])
IntParam(f, r) == OneParam([type |-> "int", value |-> U32At(f, r + 80)])

\* the local dict "parameters" of process_block (keyed by matching_string)
BlockParameters(f, r, t, mapping, previous_id, base) ==
    CASE t = 0 -> BitmapParam(f, r, mapping, base)
      [] t = 4 -> ColorParam(f, r, mapping, previous_id)
      [] t = 1 -> RealParam(f, r)
      [] t = 3 -> BooleanParam(f, r)
      [] t = 2 -> IntParam(f, r)
      [] OTHER -> NoParam

\* process_block: ok is FALSE when a read runs past the end of the file
process_block(f, r, mapping, previous_id, string_table, base) ==
    IF ~Avail(f, r, 8)
    THEN [ok |-> FALSE, pos |-> r, matching_string |-> MatchName(string_table, 0),
          parameter_type |-> 0, parameters |-> NoParam]
    ELSE LET t == U32At(f, r + 4)
             m == MatchName(string_table, U32At(f, r))
         IN  IF ~Avail(f, r, NeededBytes(t))
             THEN [ok |-> FALSE, pos |-> r, matching_string |-> m,
                   parameter_type |-> t, parameters |-> NoParam]
             ELSE [ok |-> TRUE, pos |-> r + ConsumedBytes(t), matching_string |-> m,
                   parameter_type |-> t,
                   parameters |-> BlockParameters(f, r, t, mapping, previous_id, base)]

\* a variant of the update that stores the record whatever its name
UpdateParameters_Always(all, m, p) ==
    IF p.has THEN (m.text :> p.val) @@ all ELSE all

\* if matching_string: all_parameters.update(parameters)
UpdateParameters(all, m, p) ==
    IF Truthy(m) /\ p.has THEN (m.text :> p.val) @@ all ELSE all

\* bpy.data.node_groups lookup, nodes.clear() and the rebuilt node tree
create_shader_in_blender(tree, material, shader_name, params) ==
    IF shader_name \notin NodeGroups THEN tree
    ELSE [tree EXCEPT ![material] = "built"]

(***************************************************************************)
(* Input files.  A material file is laid out the way its writer lays it    *)
(* out: the 13 counts at 28, the string table after the six weighted       *)
(* counts, counts[7] more bytes, (counts[0] - 1) * 52 bytes (none when     *)
(* counts[0] is 0), the 128-byte secondary header, then the records, 232   *)
(* bytes apart.                                                            *)
(***************************************************************************)
PutU32(off, v) == [i \in off..(off + 3) |-> IF i = off THEN v ELSE 0]

RECURSIVE PutBytes(_, _)
PutBytes(off, bytes) ==
    IF bytes = <<>> THEN <<>>
    ELSE (off :> Head(bytes)) @@ PutBytes(off + 1, Tail(bytes))

RECURSIVE PutFields(_, _, _)
PutFields(base, fields, offs) ==
    IF offs = {} THEN <<>>
    ELSE LET o == CHOOSE x \in offs : TRUE
         IN  PutU32(base + o, fields[o]) @@ PutFields(base, fields, offs \ {o})

RECURSIVE PutRecords(_, _)
PutRecords(first, recs) ==
    IF recs = <<>> THEN <<>>
    ELSE PutU32(first, Head(recs).name) @@ PutU32(first + 4, Head(recs).type)
         @@ PutFields(first, Head(recs).f, DOMAIN Head(recs).f)
         @@ PutRecords(first + ConsumedBytes(0), Tail(recs))

RECURSIVE Terminated(_)
Terminated(strs) ==
    IF strs = <<>> THEN <<>> ELSE Head(strs) \o <<0>> \o Terminated(Tail(strs))

Counts(c0, c1, c6, c7, c8) ==
    [i \in 1..HeaderCount |->
        CASE i = 1 -> c0 [] i = 2 -> c1 [] i = 7 -> c6 [] i = 8 -> c7
          [] i = 9 -> c8 [] OTHER -> 0]

\* where the writer puts the secondary header
LaidOutSecondary(c) ==
    HeaderEnd + SkipBytes(c) + c[7] + c[8] + (IF c[1] > 0 THEN (c[1] - 1) * 52 ELSE 0)

MaterialLength(c, n) == LaidOutSecondary(c) + 128 + n * ConsumedBytes(0)

\* a material file: counts c, string-table bytes, shader tag ID, declared
\* parameter count, the records, and the file's length
MaterialFile(c, table, shader, declared, recs, len) ==
    [len |-> len,
     b |-> PutFields(HeaderStart, [o \in {4 * (i - 1) : i \in 1..HeaderCount} |-> c[(o \div 4) + 1]],
                     {4 * (i - 1) : i \in 1..HeaderCount})
           @@ PutBytes(HeaderEnd + SkipBytes(c), table)
           @@ PutU32(LaidOutSecondary(c) + 28, shader)
           @@ PutU32(LaidOutSecondary(c) + 64, declared)
           @@ PutRecords(LaidOutSecondary(c) + 128, recs)]

NameA == <<97>>
NameAB == <<97, 98>>
NameBA == <<98, 97>>
HashA == murmur_hash_and_flip(NameA)
HashAB == murmur_hash_and_flip(NameAB)
UnmatchedHash == HashA + 1

\* the string table of the record families: "a", "", "ab", "ba"
TableStrings == <<NameA, <<>>, NameAB, NameBA>>
TableBytes == Terminated(TableStrings)

\* the record kinds: name hash, parameter_type and the fields of the
\* type's layout (offset in the record -> value)
RecordKinds ==
    { [name |-> HashA, type |-> 1, f |-> (64 :> 7)],
      [name |-> HashA, type |-> 0, f |-> (24 :> Ids.kept @@ 64 :> 3 @@ 68 :> 4)],
      [name |-> HashA, type |-> 0, f |-> (24 :> Ids.missing @@ 64 :> 3 @@ 68 :> 4)],
      [name |-> HashAB, type |-> 0, f |-> (24 :> Ids.unmapped)],
      [name |-> HashAB, type |-> 0, f |-> (24 :> Ids.notbitmap)],
      [name |-> HashAB, type |-> 0, f |-> (24 :> Ids.inner @@ 64 :> 3 @@ 68 :> 4)],
      [name |-> UnmatchedHash, type |-> 4, f |-> (48 :> 11 @@ 52 :> 12 @@ 56 :> 13 @@ 60 :> 14)],
      [name |-> HashAB, type |-> 4, f |-> (48 :> 11 @@ 52 :> 12 @@ 56 :> 13 @@ 60 :> 14)],
      [name |-> 0, type |-> 3, f |-> (80 :> 1)],
      [name |-> UnmatchedHash, type |-> 2, f |-> (80 :> 5)],
      [name |-> HashA, type |-> 99, f |-> (8 :> HashA @@ 12 :> 1 @@ 72 :> 42)] }

RECURSIVE SeqsUpTo(_, _)
SeqsUpTo(S, n) ==
    IF n = 0 THEN {<<>>}
    ELSE LET shorter == SeqsUpTo(S, n - 1)
         IN  shorter \cup {Append(q, x) : q \in {t \in shorter : Len(t) = n - 1}, x \in S}

BaseCounts == Counts(1, 0, Len(TableBytes), 0, 0)

\* the families of material files
HeaderFamily ==
    { MaterialFile(c, Terminated(<<NameA>>), Ids.shader, 1,
                   <<[name |-> HashA, type |-> 1, f |-> (64 :> 7)]>>, MaterialLength(c, 1))
        : c \in {Counts(c0, c1, 2, c7, c8) : c0 \in 0..MaxC0, c1 \in 0..1, c7 \in 0..1, c8 \in 0..1} }

\* the kinds that are combined into files of several records: a real, a
\* kept and a dropped bitmap under the same name, a colour whose name is
\* in no entry, and an unknown parameter_type
CoreKinds ==
    { k \in RecordKinds :
        \/ k.name = HashA
        \/ k.name = UnmatchedHash /\ k.type = 4 }

RecordFamily ==
    { MaterialFile(BaseCounts, TableBytes, Ids.shader, Len(recs), recs,
                   MaterialLength(BaseCounts, Len(recs)))
        : recs \in SeqsUpTo(CoreKinds, MaxRecords) \cup {<<k>> : k \in RecordKinds} }

ShaderFamily ==
    { MaterialFile(BaseCounts, TableBytes, Ids.unmapped, 1,
                   <<[name |-> HashA, type |-> 1, f |-> (64 :> 7)]>>, MaterialLength(BaseCounts, 1)) }

\* a two-record file cut short: in the header, in the string table, in the
\* secondary header, in the first and in the second record, and one that
\* declares a record more than it holds
TruncatedFamily ==
    { MaterialFile(BaseCounts, TableBytes, Ids.shader, 2,
                   <<[name |-> HashA, type |-> 1, f |-> (64 :> 7)],
                     [name |-> HashAB, type |-> 2, f |-> (80 :> 5)]>>, len)
        : len \in {HeaderStart + 6, HeaderEnd + 3,
                   LaidOutSecondary(BaseCounts) + 30, LaidOutSecondary(BaseCounts) + 66,
                   LaidOutSecondary(BaseCounts) + 128 + 10,
                   LaidOutSecondary(BaseCounts) + 128 + ConsumedBytes(0) + 40} }
    \cup { MaterialFile(BaseCounts, TableBytes, Ids.shader, 2,
                   <<[name |-> HashA, type |-> 1, f |-> (64 :> 7)]>>, MaterialLength(BaseCounts, 1)) }

\* string tables whose last run has no null inside the declared length
UnterminatedFamily ==
    { MaterialFile(Counts(1, 0, 2, 0, 0), <<97, 98, 97, 0>>, Ids.shader, 1,
                   <<[name |-> HashA, type |-> 1, f |-> (64 :> 7)]>>,
                   MaterialLength(Counts(1, 0, 2, 0, 0), 1)) }

\* a file whose string table is "a\0bb\0"
ExampleTable == Terminated(<<NameA, <<98, 98>>>>)
ExampleTableFamily ==
    { MaterialFile(Counts(1, 0, Len(ExampleTable), 0, 0), ExampleTable, Ids.shader, 1,
                   <<[name |-> HashA, type |-> 1, f |-> (64 :> 7)]>>,
                   MaterialLength(Counts(1, 0, Len(ExampleTable), 0, 0), 1)) }

\* a file whose 13 counts are all zero
ZeroFamily ==
    { MaterialFile(Counts(0, 0, 0, 0, 0), <<>>, Ids.shader, 0, <<>>,
                   MaterialLength(Counts(0, 0, 0, 0, 0), 0)) }

MaterialFiles ==
    HeaderFamily \cup RecordFamily \cup ShaderFamily \cup TruncatedFamily
        \cup UnterminatedFamily \cup ExampleTableFamily \cup ZeroFamily

(***************************************************************************)
(* Light files, laid out the way the light decoder reads them: the 13      *)
(* counts at 28, the secondary header after the thirteen weighted counts   *)
(* (block count at +32), then the blocks.                                  *)
(***************************************************************************)
\* the reads and seeks of one block: up to its last read, and in all
LightNeededBytes == 4 + 12 + 16 + 4 + 4 + 16 + 124 + 12 + 8
LightBlockBytes == LightNeededBytes + 296

LightSecondary(c) == HeaderEnd + TotalSkip(c)

RECURSIVE PutBlocks(_, _)
PutBlocks(first, blocks) ==
    IF blocks = <<>> THEN <<>>
    ELSE PutFields(first, Head(blocks), DOMAIN Head(blocks))
         @@ PutBlocks(first + LightBlockBytes, Tail(blocks))

LightLength(c, n) == LightSecondary(c) + 32 + 4 + 12 + n * LightBlockBytes

LightFile(c, declared, blocks, len) ==
    [len |-> len,
     b |-> PutFields(HeaderStart, [o \in {4 * (i - 1) : i \in 1..HeaderCount} |-> c[(o \div 4) + 1]],
                     {4 * (i - 1) : i \in 1..HeaderCount})
           @@ PutU32(LightSecondary(c) + 32, declared)
           @@ PutBlocks(LightSecondary(c) + 32 + 4 + 12, blocks)]

\* a block: offset in the block -> value (composer 0, position 4, rotation
\* 16, kind code 36, colour and intensity 40, area 180, spot cone 192)
LightBlock(code, outer) ==
    (0 :> 9) @@ (4 :> 1) @@ (8 :> 2) @@ (12 :> 3) @@ (16 :> 4) @@ (20 :> 5) @@ (24 :> 6)
    @@ (28 :> 7) @@ (36 :> code) @@ (40 :> 10) @@ (44 :> 11) @@ (48 :> 12) @@ (52 :> 13)
    @@ (180 :> 20) @@ (184 :> 21) @@ (188 :> 22) @@ (192 :> 30) @@ (196 :> outer)

LightKinds ==
    {LightBlock(code, 31) : code \in {0, 1, 2, 3, 4, 7}} \cup {LightBlock(1, 0)}

LightHeaderFamily ==
    { LightFile(c, 1, <<LightBlock(0, 31)>>, LightLength(c, 1))
        : c \in {Counts(c0, c1, c6, c7, 0) : c0 \in 0..MaxC0, c1 \in 0..1, c6 \in {0, 2},
                                               c7 \in 0..1} }

LightBaseCounts == Counts(1, 0, 2, 0, 0)

LightBlockFamily ==
    { LightFile(LightBaseCounts, Len(blocks), blocks, LightLength(LightBaseCounts, Len(blocks)))
        : blocks \in SeqsUpTo(LightKinds, MaxBlocks) }

\* a two-block file cut short: in the header, in the secondary header, in
\* the first and in the second block, and one that declares a block more
\* than it holds
LightTruncatedFamily ==
    { LightFile(LightBaseCounts, 2, <<LightBlock(3, 31), LightBlock(1, 31)>>, len)
        : len \in {HeaderStart + 6, LightSecondary(LightBaseCounts) + 33,
                   LightSecondary(LightBaseCounts) + 48 + 100,
                   LightSecondary(LightBaseCounts) + 48 + LightBlockBytes + 100} }
    \cup { LightFile(LightBaseCounts, 2, <<LightBlock(3, 31)>>, LightLength(LightBaseCounts, 1)) }

\* a one-block file cut short in the trailing padding of its block
LightPaddingCutFamily ==
    { LightFile(LightBaseCounts, 1, <<LightBlock(3, 31)>>,
                LightSecondary(LightBaseCounts) + 32 + 4 + 12 + LightNeededBytes + 10) }

LightFiles ==
    LightHeaderFamily \cup LightBlockFamily \cup LightTruncatedFamily
        \cup LightPaddingCutFamily

(***************************************************************************)
(* The scene the material batch runs on.                                   *)
(***************************************************************************)
Materials == {"m1", "m2"}
EmptySlot == ""

RECURSIVE Flatten(_)
Flatten(objs) == IF objs = <<>> THEN <<>> ELSE Head(objs) \o Flatten(Tail(objs))

\* an object has no slot, one slot, or the two materials in two slots
ObjectShapes ==
    {<<>>, <<"m1", "m2">>} \cup {<<m>> : m \in Materials \cup {EmptySlot}}

\* the selections: one or two objects (or none) with their material slots,
\* MaxSlots slots at most
Selections ==
    { objs \in SeqsUpTo(ObjectShapes, 2) : Len(Flatten(objs)) <= MaxSlots }

NoMatch == [found |-> FALSE, text |-> <<>>]
Unbound == [bound |-> FALSE, v |-> <<>>]
NoCall == [called |-> FALSE, shader_name |-> <<>>, parameters |-> <<>>]
NoFile == [len |-> 0, b |-> <<>>]

VARIABLES
    pc,                       \* where the running operator is
    objects,                  \* bpy.context.selected_objects and their slots
    use_nodes,                \* material.use_nodes of each material
    slotIdx,                  \* main: position in the iteration over slots
    processed_materials,      \* main: processed_materials
    outcomes,                 \* what became of each material looked up
    nodeTree,                 \* each material's node tree: "orig" or "built"
    f,                        \* the open file
    pos,                      \* file.tell()
    u32_values,               \* the 13 header counts
    data_start,               \* read_string_table: data_start
    data_end,                 \* read_string_table: data_end
    string_table,             \* the entries read so far
    shadertagID,
    filename,                 \* the local of process_secondary_header
    materialparameterscount,
    blk,                      \* records processed so far
    recordOffsets,            \* where each of them was read
    all_parameters,
    matching_string,          \* of the last record
    parameters,               \* of the last record
    parameter_type,           \* of the last record
    err,                      \* the exception that ended the decode
    builder,                  \* the call of create_shader_in_blender
    selected_files,           \* execute: how many light files are selected
    fileIdx,                  \* read_binary_file_and_create_lights: the file reached
    block_count,
    index,                    \* blocks read so far
    collections,              \* per collection linked to the scene: its lights
    lights,                   \* the create_light calls of the open file
    report,                   \* what execute reported
    filepaths_txt,            \* load_id_mapping: the lines of filepaths.txt
    lineNo,                   \* load_id_mapping: the line reached
    loaded,                   \* load_id_mapping: id_mapping so far
    data_materials,           \* bpy.data.materials, in the order of its iteration
    data_objects,             \* bpy.data.objects and their material slots
    materials_by_tag,         \* rename_and_merge_materials: materials_by_tag
    name_counter,             \* rename_and_merge_materials: name_counter
    mat_iter,                 \* the material the running "for mat in" gives next
    names,                    \* filelist_maker: the open "names" file
    chars                     \* read_string: chars

cleanerVars == <<data_materials, data_objects, materials_by_tag, name_counter, mat_iter>>
stringVars == <<names, chars>>
sceneVars == <<objects, use_nodes, nodeTree, builder>>
batchVars == <<slotIdx, processed_materials, outcomes>>
fileVars == <<f, pos, u32_values, data_start, data_end, string_table>>
headerVars == <<shadertagID, filename, materialparameterscount>>
blockVars == <<blk, recordOffsets, all_parameters, matching_string, parameters, parameter_type>>
materialVars ==
    <<objects, use_nodes, nodeTree, builder, slotIdx, processed_materials, outcomes,
      data_start, data_end, string_table, shadertagID, filename,
      materialparameterscount, blk, recordOffsets, all_parameters, matching_string,
      parameters, parameter_type, filepaths_txt, lineNo, loaded, cleanerVars, stringVars>>
lightVars ==
    <<selected_files, fileIdx, block_count, index, collections, lights, report,
      filepaths_txt, lineNo, loaded, cleanerVars, stringVars>>

\* the material cleaner and the builder of the ID mapping are not running
ToolsIdle ==
    /\ data_materials = <<>>
    /\ data_objects = <<>>
    /\ materials_by_tag = <<>>
    /\ name_counter = <<>>
    /\ mat_iter = 0
    /\ names = NoFile
    /\ chars = <<>>

Slots == Flatten(objects)
CurrentMaterial == Slots[slotIdx]

\* a variant of the decode that goes on with the parameters of the
\* decode before it
FreshParameters_Kept == all_parameters

\* all_parameters = {} in process_secondary_header
FreshParameters == <<>>

FreshLocals ==
    /\ pos' = 0
    /\ u32_values' = <<>>
    /\ data_start' = 0
    /\ data_end' = 0
    /\ string_table' = <<>>
    /\ shadertagID' = NoneInt
    /\ filename' = Unbound
    /\ materialparameterscount' = 0
    /\ blk' = 0
    /\ recordOffsets' = <<>>
    /\ all_parameters' = FreshParameters
    /\ matching_string' = NoMatch
    /\ parameters' = NoParam
    /\ parameter_type' = NoneInt
    /\ err' = "none"
    /\ builder' = NoCall

InitLocals ==
    /\ f = NoFile
    /\ pos = 0
    /\ u32_values = <<>>
    /\ data_start = 0
    /\ data_end = 0
    /\ string_table = <<>>
    /\ shadertagID = NoneInt
    /\ filename = Unbound
    /\ materialparameterscount = 0
    /\ blk = 0
    /\ recordOffsets = <<>>
    /\ all_parameters = <<>>
    /\ matching_string = NoMatch
    /\ parameters = NoParam
    /\ parameter_type = NoneInt
    /\ err = "none"
    /\ builder = NoCall

\* a variant of the handlers that gives the batch up
AfterMaterialError_Abort == "done"

\* the except clauses of process_binary_file and apply_material_from_file
\* print and return: main goes on with the next slot
AfterMaterialError == "loop"

\* the material's slot is done: main adds it to processed_materials
\* a variant of main that does not mark the material as processed
SlotDone_Forgets(result) ==
    /\ slotIdx' = slotIdx + 1
    /\ processed_materials' = processed_materials
    /\ outcomes' = Append(outcomes, [name |-> CurrentMaterial, result |-> result])

\* main goes on with the next slot: processed_materials.add(material_name)
SlotDone(result) ==
    /\ slotIdx' = slotIdx + 1
    /\ processed_materials' = processed_materials \cup {CurrentMaterial}
    /\ outcomes' = Append(outcomes, [name |-> CurrentMaterial, result |-> result])

\* an exception inside process_binary_file
DecodeFails(kind) ==
    /\ err' = kind
    /\ pc' = AfterMaterialError
    /\ SlotDone("failed")

\* main, up to its loop: "No objects selected." returns at once
main ==
    /\ pc = "idle"
    /\ pc' = IF objects = <<>> THEN "done" ELSE "loop"
    /\ slotIdx' = 1
    /\ processed_materials' = {}
    /\ UNCHANGED <<sceneVars, outcomes, fileVars, headerVars, blockVars, err>>
    /\ UNCHANGED lightVars

\* the loops of main are over
MainReturns ==
    /\ pc = "loop"
    /\ slotIdx > Len(Slots)
    /\ pc' = "done"
    /\ UNCHANGED <<sceneVars, batchVars, fileVars, headerVars, blockVars, err>>
    /\ UNCHANGED lightVars

\* if not material: continue
SkipEmptySlot ==
    /\ pc = "loop"
    /\ slotIdx <= Len(Slots)
    /\ CurrentMaterial = EmptySlot
    /\ slotIdx' = slotIdx + 1
    /\ UNCHANGED <<pc, sceneVars, processed_materials, outcomes, fileVars, headerVars,
                   blockVars, err>>
    /\ UNCHANGED lightVars

\* if material_name in processed_materials: continue
SkipProcessed ==
    /\ pc = "loop"
    /\ slotIdx <= Len(Slots)
    /\ CurrentMaterial \in processed_materials
    /\ slotIdx' = slotIdx + 1
    /\ UNCHANGED <<pc, sceneVars, processed_materials, outcomes, fileVars, headerVars,
                   blockVars, err>>
    /\ UNCHANGED lightVars

ToLookUp ==
    /\ pc = "loop"
    /\ slotIdx <= Len(Slots)
    /\ CurrentMaterial # EmptySlot
    /\ CurrentMaterial \notin processed_materials

\* find_material_file returns None
MaterialFileNotFound ==
    /\ ToLookUp
    /\ SlotDone("nofile")
    /\ UNCHANGED <<pc, sceneVars, fileVars, headerVars, blockVars, err>>
    /\ UNCHANGED lightVars

\* the file is found and the material does not use nodes
MaterialWithoutNodes ==
    /\ ToLookUp
    /\ ~use_nodes[CurrentMaterial]
    /\ SlotDone("nonodes")
    /\ UNCHANGED <<pc, sceneVars, fileVars, headerVars, blockVars, err>>
    /\ UNCHANGED lightVars

\* the file is found: process_binary_file loads the mapping and opens it
OpenMaterialFile ==
    /\ ToLookUp
    /\ use_nodes[CurrentMaterial]
    /\ \E mf \in MaterialFiles : f' = mf
    /\ FreshLocals
    /\ pc' = "header"
    /\ UNCHANGED <<objects, use_nodes, nodeTree, batchVars>>
    /\ UNCHANGED lightVars

\* f.seek(28), the 13 counts, f.seek(string_table_offset); read_string_table
\* takes data_start and data_end
ReadHeader ==
    /\ pc = "header"
    /\ IF ~Avail(f, HeaderStart, 4 * HeaderCount)
       THEN /\ DecodeFails("struct.error")
            /\ UNCHANGED <<sceneVars, fileVars, headerVars, blockVars>>
       ELSE /\ u32_values' = HeaderCounts(f)
            /\ pos' = HeaderEnd + SkipBytes(HeaderCounts(f))
            /\ data_start' = HeaderEnd + SkipBytes(HeaderCounts(f))
            /\ data_end' = HeaderEnd + SkipBytes(HeaderCounts(f)) + HeaderCounts(f)[7]
            /\ pc' = "strings"
            /\ UNCHANGED <<sceneVars, batchVars, f, string_table, headerVars, blockVars, err>>
    /\ UNCHANGED lightVars

\* one turn of the outer loop of read_string_table
ReadString ==
    /\ pc = "strings"
    /\ pos < data_end
    /\ Len(string_table) < MaxStrings
    /\ string_table' = Append(string_table, StringEntry(ReadRun(f, pos).s))
    /\ pos' = ReadRun(f, pos).pos
    /\ UNCHANGED <<pc, sceneVars, batchVars, f, u32_values, data_start, data_end, headerVars,
                   blockVars, err>>
    /\ UNCHANGED lightVars

\* f.seek(u32_values[7], 1); f.seek((u32_values[0] - 1) * 52, 1)
SeekSecondaryHeader ==
    /\ pc = "strings"
    /\ pos >= data_end
    /\ LET target == pos + u32_values[8] + (u32_values[1] - 1) * 52
       IN  IF target < 0
           THEN /\ DecodeFails("OSError")
                /\ UNCHANGED <<sceneVars, fileVars, headerVars, blockVars>>
           ELSE /\ pos' = target
                /\ pc' = "secondary"
                /\ UNCHANGED <<sceneVars, batchVars, f, u32_values, data_start, data_end, string_table,
                               headerVars, blockVars, err>>
    /\ UNCHANGED lightVars

\* process_secondary_header, up to its loop
ReadSecondaryHeader ==
    /\ pc = "secondary"
    /\ IF ~Avail(f, pos + 28, 4)
       THEN /\ DecodeFails("struct.error")
            /\ UNCHANGED <<sceneVars, fileVars, headerVars, blockVars>>
       ELSE LET id == U32At(f, pos + 28)
                name == IF id \in DOMAIN id_mapping
                        THEN [bound |-> TRUE, v |-> extract_filename_from_path(id_mapping[id].path)]
                        ELSE Unbound
            IN  /\ shadertagID' = id
                /\ filename' = name
                /\ IF ~Avail(f, pos + 64, 4)
                   THEN /\ DecodeFails("struct.error")
                        /\ UNCHANGED <<sceneVars, fileVars, materialparameterscount, blockVars>>
                   ELSE /\ materialparameterscount' = U32At(f, pos + 64)
                        /\ pos' = pos + 128
                        /\ IF name.bound
                           THEN /\ pc' = "blocks"
                                /\ UNCHANGED <<batchVars, err>>
                           ELSE DecodeFails("UnboundLocalError")
                        /\ UNCHANGED <<sceneVars, f, u32_values, data_start, data_end, string_table,
                                       blockVars>>
    /\ UNCHANGED lightVars

\* a variant of the loop body that builds the shader after every record
SceneAfterBlock_InLoop(tree, material, shader_name, params) ==
    create_shader_in_blender(tree, material, shader_name, params)

\* the body of the loop of process_secondary_header leaves the scene alone
SceneAfterBlock(tree, material, shader_name, params) == tree

\* one turn of the loop of process_secondary_header
ProcessBlock ==
    /\ pc = "blocks"
    /\ blk < materialparameterscount
    /\ LET r == process_block(f, pos, id_mapping, shadertagID, string_table, base_texture_path)
       IN  /\ matching_string' = r.matching_string
           /\ parameter_type' = r.parameter_type
           /\ parameters' = r.parameters
           /\ recordOffsets' = Append(recordOffsets, pos)
           /\ IF ~r.ok
              THEN /\ DecodeFails("struct.error")
                   /\ UNCHANGED <<sceneVars, fileVars, headerVars, blk, all_parameters>>
              ELSE /\ pos' = r.pos
                   /\ blk' = blk + 1
                   /\ all_parameters' = UpdateParameters(all_parameters, r.matching_string, r.parameters)
                   /\ nodeTree' = SceneAfterBlock(nodeTree, CurrentMaterial, filename.v,
                                                  UpdateParameters(all_parameters, r.matching_string, r.parameters))
                   /\ UNCHANGED <<pc, objects, use_nodes, builder, batchVars, f, u32_values,
                                  data_start, data_end, string_table, headerVars, err>>
    /\ UNCHANGED lightVars

\* create_shader_in_blender(shader_name, all_parameters, material)
CreateShader ==
    /\ pc = "blocks"
    /\ blk >= materialparameterscount
    /\ builder' = [called |-> TRUE, shader_name |-> filename.v, parameters |-> all_parameters]
    /\ nodeTree' = create_shader_in_blender(nodeTree, CurrentMaterial, filename.v, all_parameters)
    /\ pc' = "loop"
    /\ SlotDone("decoded")
    /\ UNCHANGED <<objects, use_nodes, fileVars, headerVars, blockVars, err>>
    /\ UNCHANGED lightVars

(***************************************************************************)
(* The light batch.                                                        *)
(***************************************************************************)
\* light_type_mapping.get(light_type_value, "POINT")
\* a variant of the mapping whose default is "SUN"
LightType_DefaultSun(code) ==
    CASE code = 0 -> "POINT"
      [] code = 1 -> "SPOT"
      [] code = 2 -> "POINT"
      [] code = 3 -> "AREA"
      [] code = 4 -> "SUN"
      [] OTHER -> "SUN"

\* light_type_mapping.get(light_type_value, "POINT")
LightType(code) ==
    CASE code = 0 -> "POINT"
      [] code = 1 -> "SPOT"
      [] code = 2 -> "POINT"
      [] code = 3 -> "AREA"
      [] code = 4 -> "SUN"
      [] OTHER -> "POINT"

NoPair == [has |-> FALSE, val |-> <<>>]
Pair(a, b) == [has |-> TRUE, val |-> <<a, b>>]

\* a variant of the call that passes area_size for every light
LightArguments_AreaAlways(file, b, i) ==
    LET light_type == LightType(U32At(file, b + 36))
    IN  [light_type |-> light_type,
         name |-> i + 1,
         location |-> <<U32At(file, b + 4), U32At(file, b + 8), U32At(file, b + 12)>>,
         rotation_values |-> <<U32At(file, b + 16), U32At(file, b + 20), U32At(file, b + 24),
                               U32At(file, b + 28)>>,
         color |-> <<U32At(file, b + 40), U32At(file, b + 44), U32At(file, b + 48)>>,
         intensity |-> U32At(file, b + 52),
         area_size |-> Pair(U32At(file, b + 180), U32At(file, b + 184)),
         spot_cone |-> IF light_type = "SPOT"
                       THEN Pair(U32At(file, b + 192), U32At(file, b + 196)) ELSE NoPair]

\* the arguments of the create_light call for the block at offset b
LightArguments(file, b, i) ==
    LET light_type == LightType(U32At(file, b + 36))
    IN  [light_type |-> light_type,
         name |-> i + 1,
         location |-> <<U32At(file, b + 4), U32At(file, b + 8), U32At(file, b + 12)>>,
         rotation_values |-> <<U32At(file, b + 16), U32At(file, b + 20), U32At(file, b + 24),
                               U32At(file, b + 28)>>,
         color |-> <<U32At(file, b + 40), U32At(file, b + 44), U32At(file, b + 48)>>,
         intensity |-> U32At(file, b + 52),
         area_size |-> IF light_type = "AREA"
                       THEN Pair(U32At(file, b + 180), U32At(file, b + 184)) ELSE NoPair,
         spot_cone |-> IF light_type = "SPOT"
                       THEN Pair(U32At(file, b + 192), U32At(file, b + 196)) ELSE NoPair]

\* create_light divides by the outer cone angle of a spot light
create_light_raises(a) ==
    a.light_type = "SPOT" /\ a.spot_cone.has /\ a.spot_cone.val[2] = 0

\* read_binary_file_and_create_lights catches nothing: the exception ends
\* it, and execute reports the error and returns CANCELLED
AfterLightError == "done"

LightFails(kind) ==
    /\ err' = kind
    /\ pc' = AfterLightError
    /\ report' = "ERROR"
    /\ UNCHANGED fileIdx

\* execute, up to the call of read_binary_file_and_create_lights
import_lights ==
    /\ pc = "idle"
    /\ IF selected_files = 0
       THEN /\ pc' = "done"
            /\ report' = "WARNING"
       ELSE /\ pc' = "L_file"
            /\ report' = report
    /\ fileIdx' = 1
    /\ UNCHANGED <<materialVars, f, pos, u32_values, err, selected_files, block_count,
                   index, collections, lights>>

\* the loop over filepaths is over: execute reports success
LightsFinished ==
    /\ pc = "L_file"
    /\ fileIdx > selected_files
    /\ pc' = "done"
    /\ report' = IF report = "none" THEN "INFO" ELSE report
    /\ UNCHANGED <<materialVars, f, pos, u32_values, err, selected_files, fileIdx,
                   block_count, index, collections, lights>>

\* the collection is created and linked, then the file is opened
OpenLightFile ==
    /\ pc = "L_file"
    /\ fileIdx <= selected_files
    /\ collections' = Append(collections, 0)
    /\ \E lf \in LightFiles : f' = lf
    /\ pos' = 0
    /\ u32_values' = <<>>
    /\ block_count' = 0
    /\ index' = 0
    /\ lights' = <<>>
    /\ err' = "none"
    /\ pc' = "L_header"
    /\ UNCHANGED <<materialVars, selected_files, fileIdx, report>>

\* the collection is created and linked, and open() raises
OpenLightFileFails ==
    /\ pc = "L_file"
    /\ fileIdx <= selected_files
    /\ collections' = Append(collections, 0)
    /\ lights' = <<>>
    /\ LightFails("FileNotFoundError")
    /\ UNCHANGED <<materialVars, f, pos, u32_values, selected_files, block_count, index>>

\* file.seek(28), the 13 counts, file.seek(total_skip, 1)
ReadLightHeader ==
    /\ pc = "L_header"
    /\ IF ~Avail(f, HeaderStart, 4 * HeaderCount)
       THEN /\ LightFails("struct.error")
            /\ UNCHANGED <<pos, u32_values>>
       ELSE /\ u32_values' = HeaderCounts(f)
            /\ pos' = HeaderEnd + TotalSkip(HeaderCounts(f))
            /\ pc' = "L_secondary"
            /\ UNCHANGED <<err, fileIdx, report>>
    /\ UNCHANGED <<materialVars, f, selected_files, block_count, index, collections, lights>>

\* file.seek(32, 1), the block count, file.seek(12, 1)
ReadLightSecondary ==
    /\ pc = "L_secondary"
    /\ IF ~Avail(f, pos + 32, 4)
       THEN /\ LightFails("struct.error")
            /\ UNCHANGED <<pos, block_count>>
       ELSE /\ block_count' = U32At(f, pos + 32)
            /\ pos' = pos + 32 + 4 + 12
            /\ pc' = "L_blocks"
            /\ UNCHANGED <<err, fileIdx, report>>
    /\ UNCHANGED <<materialVars, f, u32_values, selected_files, index, collections, lights>>

\* one turn of the loop over blocks
ReadLightBlock ==
    /\ pc = "L_blocks"
    /\ index < block_count
    /\ IF ~Avail(f, pos, LightNeededBytes)
       THEN /\ LightFails("struct.error")
            /\ UNCHANGED <<pos, index, collections, lights>>
       ELSE IF create_light_raises(LightArguments(f, pos, index))
       THEN /\ LightFails("ZeroDivisionError")
            /\ UNCHANGED <<pos, index, collections, lights>>
       ELSE /\ lights' = Append(lights, LightArguments(f, pos, index))
            /\ collections' = [collections EXCEPT ![Len(collections)] = @ + 1]
            /\ pos' = pos + LightBlockBytes
            /\ index' = index + 1
            /\ UNCHANGED <<pc, err, fileIdx, report>>
    /\ UNCHANGED <<materialVars, f, u32_values, selected_files, block_count>>

\* the loop over blocks is over: the next file
LightFileDone ==
    /\ pc = "L_blocks"
    /\ index >= block_count
    /\ pc' = "L_file"
    /\ fileIdx' = fileIdx + 1
    /\ UNCHANGED <<materialVars, f, pos, u32_values, err, selected_files, block_count,
                   index, collections, lights, report>>

(***************************************************************************)
(* filepaths.txt: the lines write_to_file writes and load_id_mapping       *)
(* reads.  A line is a sequence of one-character strings.                  *)
(***************************************************************************)
Space == " "
NewLine == "\n"
DigitChars == <<"0", "1", "2", "3", "4", "5", "6", "7", "8", "9">>

KwId == <<"I", "D", ":", " ">>
KwString == <<"S", "t", "r", "i", "n", "g", ":", " ">>
KwCurve == <<"C", "u", "r", "v", "e", ":">>
KwNormalized == <<"N", "o", "r", "m", "a", "l", "i", "z", "e", "d", ":">>

\* f"{n}" of a natural number
RECURSIVE ToDecimal(_)
ToDecimal(n) ==
    IF n < 10 THEN <<DigitChars[n + 1]>>
    ELSE ToDecimal(n \div 10) \o <<DigitChars[(n % 10) + 1]>>

\* one line of write_to_file for the tag (string_id, string, curve,
\* normalized); None is <<>> for curve and NoneInt for normalized
write_line(tag) ==
    IF tag.curve # <<>> /\ tag.normalized # NoneInt
    THEN KwId \o ToDecimal(tag.id) \o <<Space>> \o KwString \o tag.path
         \o <<Space>> \o KwCurve \o <<Space>> \o tag.curve
         \o <<Space>> \o KwNormalized \o <<Space>> \o ToDecimal(tag.normalized) \o <<NewLine>>
    ELSE KwId \o ToDecimal(tag.id) \o <<Space>> \o KwString \o tag.path \o <<NewLine>>

\* str.strip()
RECURSIVE Strip(_)
Strip(s) ==
    IF s = <<>> THEN s
    ELSE IF Head(s) \in {Space, NewLine} THEN Strip(Tail(s))
    ELSE IF s[Len(s)] \in {Space, NewLine} THEN Strip(SubSeq(s, 1, Len(s) - 1))
    ELSE s

\* t in s
Contains(s, t) == \E i \in 1..Len(s) : OccursAt(s, i, t)

\* s.split(sep): the parts between the non-overlapping occurrences of sep,
\* leftmost first
RECURSIVE SplitOn(_, _)
SplitOn(s, sep) ==
    IF ~Contains(s, sep) THEN <<s>>
    ELSE LET i == SeqMin({k \in 1..Len(s) : OccursAt(s, k, sep)})
         IN  <<SubSeq(s, 1, i - 1)>> \o SplitOn(SubSeq(s, i + Len(sep), Len(s)), sep)

\* int(s): ok is FALSE where int raises ValueError
RECURSIVE DigitsValue(_, _)
DigitsValue(s, acc) ==
    IF s = <<>> THEN acc
    ELSE DigitsValue(Tail(s),
                     10 * acc + (CHOOSE d \in 0..9 : DigitChars[d + 1] = Head(s)))

ParseInt(s) ==
    LET t == Strip(s)
    IN  IF t = <<>> \/ \E i \in 1..Len(t) : \A d \in 1..10 : DigitChars[d] # t[i]
        THEN [ok |-> FALSE, value |-> 0]
        ELSE [ok |-> TRUE, value |-> DigitsValue(t, 0)]

\* a variant of the assignment that keeps the entry an ID already has
PutEntry_KeepsFirst(mapping, n, e) == mapping @@ (n :> e)

\* id_mapping[id_value] = {...}
PutEntry(mapping, n, e) == (n :> e) @@ mapping

\* the body of the loop of load_id_mapping for one line; ok is FALSE where
\* the line raises (ValueError of int or of an unpacking, IndexError)
load_line(mapping, line) ==
    LET parts == SplitOn(Strip(line), KwString)
        id_split == SplitOn(parts[1], KwId)
        id_value == ParseInt(id_split[2])
        rest == parts[2]
        by_curve == SplitOn(rest, <<Space>> \o KwCurve \o <<Space>>)
        by_normalized == SplitOn(by_curve[2], <<Space>> \o KwNormalized \o <<Space>>)
        normalized == ParseInt(by_normalized[2])
    IN  IF Len(parts) # 2 THEN [ok |-> TRUE, mapping |-> mapping]
        ELSE IF Len(id_split) < 2 \/ ~id_value.ok THEN [ok |-> FALSE, mapping |-> mapping]
        ELSE IF Contains(rest, KwCurve) /\ Contains(rest, KwNormalized)
        THEN IF Len(by_curve) # 2 \/ Len(by_normalized) # 2 \/ ~normalized.ok
             THEN [ok |-> FALSE, mapping |-> mapping]
             ELSE [ok |-> TRUE,
                   mapping |-> PutEntry(mapping, id_value.value,
                                        [path |-> by_curve[1], curve |-> by_normalized[1],
                                         normalized |-> normalized.value])]
        ELSE [ok |-> TRUE,
              mapping |-> PutEntry(mapping, id_value.value,
                                   [path |-> rest, curve |-> <<>>, normalized |-> NoneInt])]

\* the tags the lines of the modelled files are written from: the tags of
\* id_mapping, a second bitmap for ID 2, a bitmap for ID 2 whose curve could
\* not be read, and a tag with an ID of two digits
ListedTags ==
    { [id |-> n, path |-> id_mapping[n].path, curve |-> id_mapping[n].curve,
       normalized |-> id_mapping[n].normalized] : n \in {Ids.shader, Ids.kept} }
    \cup { [id |-> Ids.kept, path |-> BitmapMissingPath, curve |-> <<"l">>, normalized |-> 0],
           [id |-> Ids.kept, path |-> BitmapMissingPath, curve |-> <<>>, normalized |-> NoneInt],
           [id |-> 12, path |-> NotBitmapPath, curve |-> <<>>, normalized |-> NoneInt] }

\* a line without "String: ", and a line whose ID is no number
BlankLine == <<NewLine>>
BadIdLine == KwId \o <<"x", Space>> \o KwString \o NotBitmapPath \o <<NewLine>>

FileLines == {write_line(t) : t \in ListedTags} \cup {BlankLine, BadIdLine}

\* load_id_mapping is called with a file of up to MaxLines lines
InitMapping ==
    /\ pc = "mapping"
    /\ filepaths_txt \in SeqsUpTo(FileLines, MaxLines)
    /\ lineNo = 1
    /\ loaded = <<>>
    /\ ToolsIdle
    /\ objects = <<>>
    /\ use_nodes = [m \in Materials |-> TRUE]
    /\ slotIdx = 1
    /\ processed_materials = {}
    /\ outcomes = <<>>
    /\ nodeTree = [m \in Materials |-> "orig"]
    /\ selected_files = 0
    /\ InitLocals
    /\ fileIdx = 1
    /\ block_count = 0
    /\ index = 0
    /\ collections = <<>>
    /\ lights = <<>>
    /\ report = "none"

\* one turn of "for line in f"
LoadLine ==
    /\ pc = "mapping"
    /\ lineNo <= Len(filepaths_txt)
    /\ load_line(loaded, filepaths_txt[lineNo]).ok
    /\ loaded' = load_line(loaded, filepaths_txt[lineNo]).mapping
    /\ lineNo' = lineNo + 1
    /\ UNCHANGED <<pc, sceneVars, batchVars, fileVars, headerVars, blockVars, err, f, pos,
                   u32_values, selected_files, fileIdx, block_count, index, collections,
                   lights, report, filepaths_txt, cleanerVars, stringVars>>

\* the line raises: load_id_mapping is left with the exception
LoadLineFails ==
    /\ pc = "mapping"
    /\ lineNo <= Len(filepaths_txt)
    /\ ~load_line(loaded, filepaths_txt[lineNo]).ok
    /\ err' = "ValueError"
    /\ pc' = "done"
    /\ UNCHANGED <<sceneVars, batchVars, fileVars, headerVars, blockVars, f, pos,
                   u32_values, selected_files, fileIdx, block_count, index, collections,
                   lights, report, filepaths_txt, lineNo, loaded, cleanerVars, stringVars>>

\* return id_mapping
LoadReturns ==
    /\ pc = "mapping"
    /\ lineNo > Len(filepaths_txt)
    /\ pc' = "mapped"
    /\ UNCHANGED <<sceneVars, batchVars, fileVars, headerVars, blockVars, err, f, pos,
                   u32_values, selected_files, fileIdx, block_count, index, collections,
                   lights, report, filepaths_txt, lineNo, loaded, cleanerVars, stringVars>>

(***************************************************************************)
(* The decoders as functions of the file: what one call of                 *)
(* process_binary_file, and one turn of the loop over filepaths of         *)
(* read_binary_file_and_create_lights, give for a file, the ID mapping and *)
(* the existing paths being fixed.                                         *)
(***************************************************************************)
\* read_string_table from p to end; done is FALSE when MaxStrings entries
\* were read and the loop is not over
RECURSIVE read_string_table(_, _, _, _)
read_string_table(file, p, end, strings) ==
    IF p >= end THEN [done |-> TRUE, pos |-> p, strings |-> strings]
    ELSE IF Len(strings) >= MaxStrings THEN [done |-> FALSE, pos |-> p, strings |-> strings]
    ELSE read_string_table(file, ReadRun(file, p).pos, end,
                           Append(strings, StringEntry(ReadRun(file, p).s)))

\* the loop of process_secondary_header over n records from offset r
RECURSIVE RecordsFrom(_, _, _, _, _, _)
RecordsFrom(file, r, n, table, id, all) ==
    IF n = 0 THEN [ok |-> TRUE, all |-> all]
    ELSE LET b == process_block(file, r, id_mapping, id, table, base_texture_path)
         IN  IF ~b.ok THEN [ok |-> FALSE, all |-> all]
             ELSE RecordsFrom(file, b.pos, n - 1, table, id,
                              UpdateParameters(all, b.matching_string, b.parameters))

DecodeFailed(kind) == [err |-> kind, builder |-> NoCall]

process_secondary_header(file, sec, table) ==
    IF ~Avail(file, sec + 28, 4) \/ ~Avail(file, sec + 64, 4) THEN DecodeFailed("struct.error")
    ELSE LET id == U32At(file, sec + 28)
             rs == RecordsFrom(file, sec + 128, U32At(file, sec + 64), table, id, <<>>)
         IN  IF id \notin DOMAIN id_mapping THEN DecodeFailed("UnboundLocalError")
             ELSE IF ~rs.ok THEN DecodeFailed("struct.error")
             ELSE [err |-> "none",
                   builder |-> [called |-> TRUE,
                                shader_name |-> extract_filename_from_path(id_mapping[id].path),
                                parameters |-> rs.all]]

process_binary_file(file) ==
    IF ~Avail(file, HeaderStart, 4 * HeaderCount) THEN DecodeFailed("struct.error")
    ELSE LET u == HeaderCounts(file)
             t == read_string_table(file, HeaderEnd + SkipBytes(u),
                                    HeaderEnd + SkipBytes(u) + u[7], <<>>)
             sec == t.pos + u[8] + (u[1] - 1) * 52
         IN  IF ~t.done THEN DecodeFailed("none")
             ELSE IF sec < 0 THEN DecodeFailed("OSError")
             ELSE process_secondary_header(file, sec, t.strings)

\* the loop over the blocks of a light file, from block i at offset p
RECURSIVE LightsFrom(_, _, _, _, _)
LightsFrom(file, p, i, n, made) ==
    IF i >= n THEN [err |-> "none", lights |-> made]
    ELSE IF ~Avail(file, p, LightNeededBytes) THEN [err |-> "struct.error", lights |-> made]
    ELSE IF create_light_raises(LightArguments(file, p, i))
    THEN [err |-> "ZeroDivisionError", lights |-> made]
    ELSE LightsFrom(file, p + LightBlockBytes, i + 1, n, Append(made, LightArguments(file, p, i)))

\* one turn of the loop over filepaths, after open()
LightsOfFile(file) ==
    IF ~Avail(file, HeaderStart, 4 * HeaderCount) THEN [err |-> "struct.error", lights |-> <<>>]
    ELSE LET sec == HeaderEnd + TotalSkip(HeaderCounts(file))
         IN  IF ~Avail(file, sec + 32, 4) THEN [err |-> "struct.error", lights |-> <<>>]
             ELSE LightsFrom(file, sec + 32 + 4 + 12, 0, U32At(file, sec + 32), <<>>)

(***************************************************************************)
(* The stand-alone script "material importer.py": the same decoder in an   *)
(* earlier state.  Its process_block gives a colour as it was read and a   *)
(* bitmap without "normalized"; its process_binary_file catches nothing;   *)
(* its create_shader_in_blender works on the active material.              *)
(***************************************************************************)
\* parameter_type 0 of the script
script_BitmapParam(file, r, mapping, base) ==
    LET bitmap_tag_id == U32At(file, r + 24)
        uv_scale == <<U32At(file, r + 64), U32At(file, r + 68)>>
        known == bitmap_tag_id \in DOMAIN mapping
        full == JoinTexturePath(base, Replace(mapping[bitmap_tag_id].path, DotBitmap, DotPng))
    IN  IF ~known \/ ~EndsWith(mapping[bitmap_tag_id].path, DotBitmap) THEN NoParam
        ELSE IF PathExists(full)
             THEN OneParam([type |-> "bitmap", value |-> full,
                            curve |-> mapping[bitmap_tag_id].curve,
                            uv_scale |-> uv_scale])
             ELSE NoParam

\* parameter_type 4 of the script: 'value': argb
script_ColorParam(file, r) ==
    LET argb == <<U32At(file, r + 48), U32At(file, r + 52), U32At(file, r + 56),
                  U32At(file, r + 60)>>
    IN  OneParam([type |-> "color", value |-> argb])

script_BlockParameters(file, r, t, mapping, base) ==
    CASE t = 0 -> script_BitmapParam(file, r, mapping, base)
      [] t = 4 -> script_ColorParam(file, r)
      [] t = 1 -> RealParam(file, r)
      [] t = 3 -> BooleanParam(file, r)
      [] t = 2 -> IntParam(file, r)
      [] OTHER -> NoParam

\* process_block of the script: the reads and seeks of the add-on's
script_process_block(file, r, mapping, table, base) ==
    IF ~Avail(file, r, 8)
    THEN [ok |-> FALSE, pos |-> r, matching_string |-> MatchName(table, 0),
          parameter_type |-> 0, parameters |-> NoParam]
    ELSE LET t == U32At(file, r + 4)
             m == MatchName(table, U32At(file, r))
         IN  IF ~Avail(file, r, NeededBytes(t))
             THEN [ok |-> FALSE, pos |-> r, matching_string |-> m,
                   parameter_type |-> t, parameters |-> NoParam]
             ELSE [ok |-> TRUE, pos |-> r + ConsumedBytes(t), matching_string |-> m,
                   parameter_type |-> t,
                   parameters |-> script_BlockParameters(file, r, t, mapping, base)]

\* the material the script builds the shader on: bpy.context.active_object's
\* active material
ActiveMaterial == "m1"

\* the files whose header and string table the script reads to their end
ScriptFiles ==
    { mf \in MaterialFiles :
        /\ Avail(mf, HeaderStart, 4 * HeaderCount)
        /\ LET u == HeaderCounts(mf)
               t == read_string_table(mf, HeaderEnd + SkipBytes(u),
                                      HeaderEnd + SkipBytes(u) + u[7], <<>>)
           IN  t.done /\ t.pos + u[8] + (u[1] - 1) * 52 >= 0 }

\* the variables the script's decode leaves alone
scriptRest ==
    <<objects, use_nodes, slotIdx, processed_materials, outcomes, selected_files, fileIdx,
      block_count, index, collections, lights, report, filepaths_txt, lineNo, loaded,
      cleanerVars, stringVars>>

\* process_binary_file of the script has read the header and the string
\* table of a file and calls process_secondary_header
InitScript ==
    /\ pc = "S_secondary"
    /\ f \in ScriptFiles
    /\ u32_values = HeaderCounts(f)
    /\ data_start = HeaderEnd + SkipBytes(u32_values)
    /\ data_end = data_start + u32_values[7]
    /\ string_table = read_string_table(f, data_start, data_end, <<>>).strings
    /\ pos = read_string_table(f, data_start, data_end, <<>>).pos
                + u32_values[8] + (u32_values[1] - 1) * 52
    /\ shadertagID = NoneInt
    /\ filename = Unbound
    /\ materialparameterscount = 0
    /\ blk = 0
    /\ recordOffsets = <<>>
    /\ all_parameters = <<>>
    /\ matching_string = NoMatch
    /\ parameters = NoParam
    /\ parameter_type = NoneInt
    /\ err = "none"
    /\ builder = NoCall
    /\ objects = <<<<ActiveMaterial>>>>
    /\ use_nodes = [m \in Materials |-> TRUE]
    /\ slotIdx = 1
    /\ processed_materials = {}
    /\ outcomes = <<>>
    /\ nodeTree = [m \in Materials |-> "orig"]
    /\ selected_files = 0
    /\ fileIdx = 1
    /\ block_count = 0
    /\ index = 0
    /\ collections = <<>>
    /\ lights = <<>>
    /\ report = "none"
    /\ filepaths_txt = <<>>
    /\ lineNo = 1
    /\ loaded = <<>>
    /\ ToolsIdle

\* an exception in the script: nothing catches it
ScriptFails(kind) ==
    /\ err' = kind
    /\ pc' = "done"

\* process_secondary_header of the script, up to its loop
ScriptReadSecondaryHeader ==
    /\ pc = "S_secondary"
    /\ IF ~Avail(f, pos + 28, 4)
       THEN /\ ScriptFails("struct.error")
            /\ UNCHANGED <<pos, shadertagID, filename, materialparameterscount>>
       ELSE LET id == U32At(f, pos + 28)
                name == IF id \in DOMAIN id_mapping
                        THEN [bound |-> TRUE, v |-> extract_filename_from_path(id_mapping[id].path)]
                        ELSE Unbound
            IN  /\ shadertagID' = id
                /\ filename' = name
                /\ IF ~Avail(f, pos + 64, 4)
                   THEN /\ ScriptFails("struct.error")
                        /\ UNCHANGED <<pos, materialparameterscount>>
                   ELSE /\ materialparameterscount' = U32At(f, pos + 64)
                        /\ pos' = pos + 128
                        /\ IF name.bound
                           THEN /\ pc' = "S_blocks"
                                /\ UNCHANGED err
                           ELSE ScriptFails("UnboundLocalError")
    /\ UNCHANGED <<f, u32_values, data_start, data_end, string_table, blockVars, builder,
                   nodeTree>>
    /\ UNCHANGED scriptRest

\* one turn of the loop of the script's process_secondary_header
ScriptProcessBlock ==
    /\ pc = "S_blocks"
    /\ blk < materialparameterscount
    /\ LET r == script_process_block(f, pos, id_mapping, string_table, base_texture_path)
       IN  /\ matching_string' = r.matching_string
           /\ parameter_type' = r.parameter_type
           /\ parameters' = r.parameters
           /\ recordOffsets' = Append(recordOffsets, pos)
           /\ IF ~r.ok
              THEN /\ ScriptFails("struct.error")
                   /\ UNCHANGED <<pos, blk, all_parameters>>
              ELSE /\ pos' = r.pos
                   /\ blk' = blk + 1
                   /\ all_parameters' = UpdateParameters(all_parameters, r.matching_string, r.parameters)
                   /\ UNCHANGED <<pc, err>>
    /\ UNCHANGED <<f, u32_values, data_start, data_end, string_table, headerVars, builder,
                   nodeTree>>
    /\ UNCHANGED scriptRest

\* create_shader_in_blender(shader_name, all_parameters) of the script
ScriptCreateShader ==
    /\ pc = "S_blocks"
    /\ blk >= materialparameterscount
    /\ builder' = [called |-> TRUE, shader_name |-> filename.v, parameters |-> all_parameters]
    /\ nodeTree' = create_shader_in_blender(nodeTree, ActiveMaterial, filename.v, all_parameters)
    /\ pc' = "done"
    /\ UNCHANGED <<fileVars, headerVars, blockVars, err>>
    /\ UNCHANGED scriptRest

(***************************************************************************)
(* material_cleaner.py: rename_and_merge_materials.  bpy.data.materials is *)
(* Blender's list of materials.  Its iterator steps to the following       *)
(* material before the loop body runs, so the body may remove the material *)
(* it was given; the list is kept sorted by name, so a renamed material    *)
(* takes another place in it, which may be any.  A material is its "id",   *)
(* the custom properties "tag_name" and "material_name" (0 and "" when the *)
(* material has none) and its name.                                        *)
(***************************************************************************)
NoTag == 0
NoName == ""

MaterialShapes ==
    { [tag_name |-> 1, material_name |-> NoName],
      [tag_name |-> 1, material_name |-> "x"],
      [tag_name |-> 2, material_name |-> "x"] }

\* the lists of up to MaxMaterials materials; material i is named "old i"
MaterialLists ==
    { [i \in 1..Len(sh) |->
          [id |-> i, tag_name |-> sh[i].tag_name, material_name |-> sh[i].material_name,
           name |-> [base |-> "old", n |-> i]]]
        : sh \in SeqsUpTo(MaterialShapes, MaxMaterials) }

\* an object has a type and one material slot (0: an empty slot)
ObjectKinds(n) ==
    { [type |-> t, material_slots |-> <<m>>] : t \in {"MESH", "CURVE"}, m \in 0..n }

\* the objects of the file: none, one object, or a mesh and a curve that use
\* the same material
ObjectLists(n) ==
    {<<>>} \cup {<<o>> : o \in ObjectKinds(n)}
        \cup { <<[type |-> "MESH", material_slots |-> <<m>>],
                 [type |-> "CURVE", material_slots |-> <<m>>]>> : m \in 0..n }

\* "tag_name" in mat and "material_name" in mat
HasBoth(m) == m.tag_name # NoTag /\ m.material_name # NoName

IndexOf(list, id) == CHOOSE i \in 1..Len(list) : list[i].id = id
MaterialOf(list, id) == list[IndexOf(list, id)]

\* the iterator of the list: its first material, and the one that follows
\* a material (0: none, the iteration is over)
FirstOf(list) == IF list = <<>> THEN 0 ELSE list[1].id
Successor(list, id) ==
    IF IndexOf(list, id) < Len(list) THEN list[IndexOf(list, id) + 1].id ELSE 0

Without(list, id) == SelectSeq(list, LAMBDA m : m.id # id)

\* mat.name = name: the material is renamed and takes place k of the list
Renamed(list, id, name, k) ==
    LET m == [MaterialOf(list, id) EXCEPT !.name = name]
        rest == Without(list, id)
    IN  SubSeq(rest, 1, k - 1) \o <<m>> \o SubSeq(rest, k, Len(rest))

\* a variant of the removal that leaves the material in the list
RemoveMaterial_Keeps(list, id) == list

\* bpy.data.materials.remove(mat)
RemoveMaterial(list, id) == Without(list, id)

\* the slots of the MESH objects that use mat are given the existing material
Reassigned(objs, mat, existing) ==
    [o \in 1..Len(objs) |->
        IF objs[o].type = "MESH"
        THEN [objs[o] EXCEPT !.material_slots =
                 [s \in 1..Len(@) |-> IF @[s] = mat THEN existing ELSE @[s]]]
        ELSE objs[o]]

\* remove() unlinks the material: the slots that still use it are emptied
Unlinked(objs, mat) ==
    [o \in 1..Len(objs) |->
        [objs[o] EXCEPT !.material_slots =
            [s \in 1..Len(@) |-> IF @[s] = mat THEN 0 ELSE @[s]]]]

\* the variables the cleaner leaves alone
cleanerRest ==
    <<objects, use_nodes, nodeTree, builder, slotIdx, processed_materials, outcomes,
      fileVars, headerVars, blockVars, err, selected_files, fileIdx, block_count, index,
      collections, lights, report, filepaths_txt, lineNo, loaded, stringVars>>

\* the operator is run on a file of materials and objects
InitCleaner ==
    /\ pc = "C_idle"
    /\ data_materials \in MaterialLists
    /\ data_objects \in ObjectLists(Len(data_materials))
    /\ materials_by_tag = <<>>
    /\ name_counter = <<>>
    /\ mat_iter = 0
    /\ names = NoFile
    /\ chars = <<>>
    /\ objects = <<>>
    /\ use_nodes = [m \in Materials |-> TRUE]
    /\ slotIdx = 1
    /\ processed_materials = {}
    /\ outcomes = <<>>
    /\ nodeTree = [m \in Materials |-> "orig"]
    /\ selected_files = 0
    /\ InitLocals
    /\ fileIdx = 1
    /\ block_count = 0
    /\ index = 0
    /\ collections = <<>>
    /\ lights = <<>>
    /\ report = "none"
    /\ filepaths_txt = <<>>
    /\ lineNo = 1
    /\ loaded = <<>>

\* rename_and_merge_materials is called: materials_by_tag = {} and the first
\* loop starts
rename_and_merge_materials ==
    /\ pc = "C_idle"
    /\ pc' = "C_merge"
    /\ materials_by_tag' = <<>>
    /\ mat_iter' = FirstOf(data_materials)
    /\ UNCHANGED <<data_materials, data_objects, name_counter>>
    /\ UNCHANGED cleanerRest

\* first loop: the material lacks one of the two properties
MergeSkip ==
    /\ pc = "C_merge"
    /\ mat_iter # 0
    /\ ~HasBoth(MaterialOf(data_materials, mat_iter))
    /\ mat_iter' = Successor(data_materials, mat_iter)
    /\ UNCHANGED <<pc, data_materials, data_objects, materials_by_tag, name_counter>>
    /\ UNCHANGED cleanerRest

\* first loop: no material with this tag_name yet: it is stored and renamed
MergeFirst ==
    /\ pc = "C_merge"
    /\ mat_iter # 0
    /\ LET mat == MaterialOf(data_materials, mat_iter)
       IN  /\ HasBoth(mat)
           /\ mat.tag_name \notin DOMAIN materials_by_tag
           /\ materials_by_tag' = (mat.tag_name :> mat.id) @@ materials_by_tag
           /\ \E k \in 1..Len(data_materials) :
                 data_materials' = Renamed(data_materials, mat.id,
                                           [base |-> mat.material_name, n |-> 0], k)
    /\ mat_iter' = Successor(data_materials, mat_iter)
    /\ UNCHANGED <<pc, data_objects, name_counter>>
    /\ UNCHANGED cleanerRest

\* first loop: another material has this tag_name: the slots of the MESH
\* objects are given that material and this one is removed
MergeDuplicate ==
    /\ pc = "C_merge"
    /\ mat_iter # 0
    /\ LET mat == MaterialOf(data_materials, mat_iter)
       IN  /\ HasBoth(mat)
           /\ mat.tag_name \in DOMAIN materials_by_tag
           /\ mat.id # materials_by_tag[mat.tag_name]
           /\ data_objects' = Unlinked(Reassigned(data_objects, mat.id,
                                                  materials_by_tag[mat.tag_name]), mat.id)
           /\ data_materials' = RemoveMaterial(data_materials, mat.id)
    /\ mat_iter' = Successor(data_materials, mat_iter)
    /\ UNCHANGED <<pc, materials_by_tag, name_counter>>
    /\ UNCHANGED cleanerRest

\* first loop: the material is the one stored for its tag_name (the loop
\* comes to it again when its new name has put it further down the list)
MergeSame ==
    /\ pc = "C_merge"
    /\ mat_iter # 0
    /\ LET mat == MaterialOf(data_materials, mat_iter)
       IN  /\ HasBoth(mat)
           /\ mat.tag_name \in DOMAIN materials_by_tag
           /\ mat.id = materials_by_tag[mat.tag_name]
    /\ mat_iter' = Successor(data_materials, mat_iter)
    /\ UNCHANGED <<pc, data_materials, data_objects, materials_by_tag, name_counter>>
    /\ UNCHANGED cleanerRest

\* the first loop is over: name_counter = {} and the second loop starts
MergeDone ==
    /\ pc = "C_merge"
    /\ mat_iter = 0
    /\ pc' = "C_rename"
    /\ name_counter' = <<>>
    /\ mat_iter' = FirstOf(data_materials)
    /\ UNCHANGED <<data_materials, data_objects, materials_by_tag>>
    /\ UNCHANGED cleanerRest

\* second loop: the material lacks one of the two properties
RenameSkip ==
    /\ pc = "C_rename"
    /\ mat_iter # 0
    /\ ~HasBoth(MaterialOf(data_materials, mat_iter))
    /\ mat_iter' = Successor(data_materials, mat_iter)
    /\ UNCHANGED <<pc, data_materials, data_objects, materials_by_tag, name_counter>>
    /\ UNCHANGED cleanerRest

\* second loop: the first material with this material_name keeps its name
RenameBase ==
    /\ pc = "C_rename"
    /\ mat_iter # 0
    /\ LET mat == MaterialOf(data_materials, mat_iter)
       IN  /\ HasBoth(mat)
           /\ mat.material_name \notin DOMAIN name_counter
           /\ name_counter' = (mat.material_name :> 1) @@ name_counter
    /\ mat_iter' = Successor(data_materials, mat_iter)
    /\ UNCHANGED <<pc, data_materials, data_objects, materials_by_tag>>
    /\ UNCHANGED cleanerRest

\* second loop: the material_name was used: the material gets a number
RenameNumbered ==
    /\ pc = "C_rename"
    /\ mat_iter # 0
    /\ LET mat == MaterialOf(data_materials, mat_iter)
       IN  /\ HasBoth(mat)
           /\ mat.material_name \in DOMAIN name_counter
           /\ name_counter[mat.material_name] <= MaxRenames
           /\ \E k \in 1..Len(data_materials) :
                 data_materials' = Renamed(data_materials, mat.id,
                                           [base |-> mat.material_name,
                                            n |-> name_counter[mat.material_name]], k)
           /\ name_counter' = [name_counter EXCEPT ![mat.material_name] = @ + 1]
    /\ mat_iter' = Successor(data_materials, mat_iter)
    /\ UNCHANGED <<pc, data_objects, materials_by_tag>>
    /\ UNCHANGED cleanerRest

\* the second loop is over: rename_and_merge_materials returns
CleanerReturns ==
    /\ pc = "C_rename"
    /\ mat_iter = 0
    /\ pc' = "cleaned"
    /\ UNCHANGED cleanerVars
    /\ UNCHANGED cleanerRest

(***************************************************************************)
(* filelist_maker.py: read_string, called by process_files with an offset  *)
(* read from the "files" file.  chars is a list of the decoded reads:      *)
(* one-character texts, and the empty text for a read at the end of the    *)
(* file.                                                                   *)
(***************************************************************************)
\* the contents of the "names" file: up to MaxNameBytes bytes, nulls and
\* letters
NamesFiles ==
    { [len |-> Len(bytes), b |-> PutBytes(0, bytes)]
        : bytes \in SeqsUpTo({0, 97, 98}, MaxNameBytes) }

\* the variables read_string leaves alone
stringRest ==
    <<objects, use_nodes, nodeTree, builder, slotIdx, processed_materials, outcomes,
      f, u32_values, data_start, data_end, string_table, headerVars, blockVars, err,
      selected_files, fileIdx, block_count, index, collections, lights, report,
      filepaths_txt, lineNo, loaded, cleanerVars>>

\* process_files has opened the two files and stands in its loop
InitStrings ==
    /\ pc = "F_entry"
    /\ names \in NamesFiles
    /\ chars = <<>>
    /\ data_materials = <<>>
    /\ data_objects = <<>>
    /\ materials_by_tag = <<>>
    /\ name_counter = <<>>
    /\ mat_iter = 0
    /\ objects = <<>>
    /\ use_nodes = [m \in Materials |-> TRUE]
    /\ slotIdx = 1
    /\ processed_materials = {}
    /\ outcomes = <<>>
    /\ nodeTree = [m \in Materials |-> "orig"]
    /\ selected_files = 0
    /\ InitLocals
    /\ fileIdx = 1
    /\ block_count = 0
    /\ index = 0
    /\ collections = <<>>
    /\ lights = <<>>
    /\ report = "none"
    /\ filepaths_txt = <<>>
    /\ lineNo = 1
    /\ loaded = <<>>

\* read_string(names, offset): file.seek(offset); chars = []
read_string ==
    /\ pc = "F_entry"
    /\ \E offset \in 0..(names.len + 1) : pos' = offset
    /\ chars' = <<>>
    /\ pc' = "F_read"
    /\ UNCHANGED names
    /\ UNCHANGED stringRest

\* one turn of "while True": a null ends the loop; any other read, the
\* empty read at the end of the file too, is decoded and appended
ReadChar ==
    /\ pc = "F_read"
    /\ IF pos < names.len /\ ByteAt(names, pos) = 0
       THEN /\ pos' = pos + 1
            /\ pc' = "F_returned"
            /\ UNCHANGED chars
       ELSE /\ Len(chars) < MaxChars
            /\ chars' = Append(chars, IF pos < names.len THEN <<ByteAt(names, pos)>> ELSE <<>>)
            /\ pos' = IF pos < names.len THEN pos + 1 ELSE pos
            /\ UNCHANGED pc
    /\ UNCHANGED names
    /\ UNCHANGED stringRest

\* return ''.join(chars): process_files goes on with the string
StringReturned ==
    /\ pc = "F_returned"
    /\ pc' = "F_stored"
    /\ UNCHANGED <<names, chars, pos>>
    /\ UNCHANGED stringRest

vars ==
    <<pc, objects, use_nodes, slotIdx, processed_materials, outcomes, nodeTree, f, pos,
      u32_values, data_start, data_end, string_table, shadertagID, filename, materialparameterscount,
      blk, recordOffsets, all_parameters, matching_string, parameters, parameter_type,
      err, builder, selected_files, fileIdx, block_count, index, collections, lights,
      report, filepaths_txt, lineNo, loaded, data_materials, data_objects, materials_by_tag,
      name_counter, mat_iter, names, chars>>

InitMaterials ==
    /\ pc = "idle"
    /\ objects \in Selections
    /\ use_nodes \in [Materials -> BOOLEAN]
    /\ slotIdx = 1
    /\ processed_materials = {}
    /\ outcomes = <<>>
    /\ nodeTree = [m \in Materials |-> "orig"]
    /\ selected_files = 0

InitLights ==
    /\ pc = "idle"
    /\ objects = <<>>
    /\ use_nodes = [m \in Materials |-> TRUE]
    /\ slotIdx = 1
    /\ processed_materials = {}
    /\ outcomes = <<>>
    /\ nodeTree = [m \in Materials |-> "orig"]
    /\ selected_files \in 1..MaxLightFiles

Init ==
    /\ InitMaterials \/ InitLights
    /\ InitLocals
    /\ fileIdx = 1
    /\ block_count = 0
    /\ index = 0
    /\ collections = <<>>
    /\ lights = <<>>
    /\ report = "none"
    /\ filepaths_txt = <<>>
    /\ lineNo = 1
    /\ loaded = <<>>
    /\ ToolsIdle

Next ==
    \/ main
    \/ MainReturns
    \/ SkipEmptySlot
    \/ SkipProcessed
    \/ MaterialFileNotFound
    \/ MaterialWithoutNodes
    \/ OpenMaterialFile
    \/ ReadHeader
    \/ ReadString
    \/ SeekSecondaryHeader
    \/ ReadSecondaryHeader
    \/ ProcessBlock
    \/ CreateShader
    \/ import_lights
    \/ LightsFinished
    \/ OpenLightFile
    \/ OpenLightFileFails
    \/ ReadLightHeader
    \/ ReadLightSecondary
    \/ ReadLightBlock
    \/ LightFileDone

Spec == Init /\ [][Next]_vars

NextMapping ==
    \/ LoadLine
    \/ LoadLineFails
    \/ LoadReturns

SpecMapping == InitMapping /\ [][NextMapping]_vars

NextScript ==
    \/ ScriptReadSecondaryHeader
    \/ ScriptProcessBlock
    \/ ScriptCreateShader

SpecScript == InitScript /\ [][NextScript]_vars

NextCleaner ==
    \/ rename_and_merge_materials
    \/ MergeSkip
    \/ MergeFirst
    \/ MergeDuplicate
    \/ MergeSame
    \/ MergeDone
    \/ RenameSkip
    \/ RenameBase
    \/ RenameNumbered
    \/ CleanerReturns

SpecCleaner == InitCleaner /\ [][NextCleaner]_vars

NextStrings ==
    \/ read_string
    \/ ReadChar
    \/ StringReturned

SpecStrings == InitStrings /\ [][NextStrings]_vars

(***************************************************************************)
(* The claims.                                                             *)
(***************************************************************************)
InMaterialDecode == pc \in {"strings", "secondary", "blocks"}

\* the record at offset r of the file is a bitmap record that the drop
\* rules cover: its tag ID is no key of the mapping, or the mapped path
\* does not end in ".bitmap", or the rewritten path does not exist
DroppedBitmapAt(file, r) ==
    /\ U32At(file, r + 4) = 0
    /\ LET id == U32At(file, r + 24)
       IN  \/ id \notin DOMAIN id_mapping
           \/ ~EndsWith(id_mapping[id].path, DotBitmap)
           \/ ~PathExists(JoinTexturePath(base_texture_path,
                                          Replace(id_mapping[id].path, DotBitmap, DotPng)))

\* C1 (as claimed): a record whose parameter_type is outside 0..4 makes the
\* decode fail: nothing of the file reaches create_shader_in_blender and
\* every record read was read 232 bytes after the one before it.
C1_UnknownTypeFailsDecode ==
    (parameter_type \notin (0..4) \cup {NoneInt}) =>
        /\ err # "none"
        /\ ~builder.called
        /\ \A j \in 2..Len(recordOffsets) :
              recordOffsets[j] = recordOffsets[j - 1] + ConsumedBytes(0)

\* C2 (as claimed): when the shader is built, the name of every bitmap
\* record that the drop rules cover is absent from the parameters.
C2_DroppedNameAbsent ==
    builder.called =>
        \A j \in 1..Len(recordOffsets) :
            DroppedBitmapAt(f, recordOffsets[j]) =>
                MatchName(string_table, U32At(f, recordOffsets[j])).text
                    \notin DOMAIN builder.parameters

\* C2 (amended): a complete bitmap record that the drop rules cover adds
\* nothing to the parameters (an entry another record stored under the same
\* name stays), raises no error, and the decode goes on with the next
\* record, 232 bytes further.
C2_DroppedBitmapAddsNothing ==
    [][(/\ pc = "blocks"
        /\ blk < materialparameterscount
        /\ Avail(f, pos, NeededBytes(0))
        /\ DroppedBitmapAt(f, pos))
       => (/\ all_parameters' = all_parameters
           /\ err' = "none"
           /\ pc' = "blocks"
           /\ blk' = blk + 1
           /\ pos' = pos + ConsumedBytes(0))]_vars

\* C2 (witness): the decode has just dropped a bitmap whose name is in the
\* string table and whose texture file does not exist.
C2_Witness ==
    /\ pc = "blocks"
    /\ blk >= 1
    /\ err = "none"
    /\ parameter_type = 0
    /\ Truthy(matching_string)
    /\ ~parameters.has
    /\ U32At(f, recordOffsets[blk] + 24) = Ids.missing

\* C3 (as claimed): in a file whose header has counts[0] >= 1, a shader tag
\* ID that is no key of the mapping does not fail the decode (a decode that
\* read such an ID ends, if it fails, only on a read past the end of the
\* file).
C3_UnmappedShaderDecodes ==
    (/\ shadertagID \notin DOMAIN id_mapping \cup {NoneInt}
     /\ u32_values # <<>>
     /\ u32_values[1] >= 1) =>
        err \in {"none", "struct.error"}

\* C4: a complete record whose hashed name is the hash of no string-table
\* entry leaves the parameters as they are, does not fail the decode, and
\* the decode goes on with the next record.
C4_UnmatchedRecordSkipped ==
    [][(/\ pc = "blocks"
        /\ blk < materialparameterscount
        /\ Avail(f, pos, 8)
        /\ Avail(f, pos, NeededBytes(U32At(f, pos + 4)))
        /\ ~MatchName(string_table, U32At(f, pos)).found)
       => (/\ all_parameters' = all_parameters
           /\ err' = "none"
           /\ pc' = "blocks"
           /\ blk' = blk + 1)]_vars

\* C4 (witness): two records were decoded, the first with a name that is in
\* no entry and a value that was read, the second stored in the parameters.
C4_Witness ==
    /\ pc = "blocks"
    /\ blk = 2
    /\ err = "none"
    /\ ~MatchName(string_table, U32At(f, recordOffsets[1])).found
    /\ U32At(f, recordOffsets[1] + 4) = 4
    /\ DOMAIN all_parameters = {NameA}

\* C5: a material whose decode failed has its node tree as it was, and no
\* call of create_shader_in_blender was made for the file.
C5_FailedDecodeBuildsNothing ==
    /\ err # "none" => ~builder.called
    /\ \A i \in 1..Len(outcomes) :
          outcomes[i].result = "failed" => nodeTree[outcomes[i].name] = "orig"

\* C5 (witness): a decode failed on its second record, after the first had
\* put a parameter into all_parameters.
C5_Witness ==
    /\ pc = "loop"
    /\ err = "struct.error"
    /\ blk = 1
    /\ all_parameters # <<>>
    /\ outcomes[Len(outcomes)].result = "failed"
    /\ filename.v \in NodeGroups

\* C6: when main is over, every material of every slot has been looked up
\* and processed, whatever failed before it.
C6_BatchSurvivesFailure ==
    (pc = "done" /\ report = "none") =>
        \A i \in 1..Len(Slots) :
            Slots[i] # EmptySlot => \E j \in 1..Len(outcomes) : outcomes[j].name = Slots[i]

\* C6 (witness): main is over, the first material's decode failed and the
\* second material was decoded after it.
C6_Witness ==
    /\ pc = "done"
    /\ Len(outcomes) = 2
    /\ outcomes[1].result = "failed"
    /\ outcomes[2].result = "decoded"

\* C7 (as claimed): when the light batch is over, a collection was made and
\* the file opened for every selected file, whatever failed before it.
C7_LightBatchSurvivesFailure ==
    (pc = "done" /\ report # "none") => Len(collections) = selected_files

ClaimedSecondary(u) == HeaderEnd + SkipBytes(u) + u[7] + u[8] + (u[1] - 1) * 52

\* C9 (as claimed): both decoders start reading the secondary header at the
\* offset the 13 counts give.
C9_SameSecondaryOffset ==
    /\ pc = "secondary" => pos = ClaimedSecondary(u32_values)
    /\ pc = "L_secondary" => pos = ClaimedSecondary(u32_values)

\* C10 (as claimed): with counts[0] = 0 the secondary header is never
\* located: no decode stands at a secondary header with counts[0] = 0, and
\* none stands at one that lies before the end of the string table.
C10_ZeroCountFails ==
    pc = "secondary" => (u32_values[1] # 0 /\ pos >= data_end)

\* read_string_table has returned: the cursor is where its loop left it
TableRead == pc = "strings" /\ pos >= data_end

\* the bytes of the declared region of the string table
RegionBytes == [i \in 1..(data_end - data_start) |-> ByteAt(f, data_start + i - 1)]

\* the region lies in the file and is made of null-terminated runs, the last
\* null being its final byte (an empty region is made of no run)
RegionOfRuns ==
    /\ data_end <= f.len
    /\ RegionBytes = <<>> \/ RegionBytes[Len(RegionBytes)] = 0

\* the runs of a sequence of bytes made of null-terminated runs
RECURSIVE RunsOf(_)
RunsOf(bytes) ==
    IF bytes = <<>> THEN <<>>
    ELSE LET n == CHOOSE i \in 1..Len(bytes) :
                      bytes[i] = 0 /\ \A j \in 1..(i - 1) : bytes[j] # 0
         IN  <<SubSeq(bytes, 1, n - 1)>> \o RunsOf(SubSeq(bytes, n + 1, Len(bytes)))

\* C11: for a region made of k null-terminated runs whose last null is the
\* region's final byte, read_string_table returns k entries in the order of
\* the stream, entry j holding the text of run j and the hash of that text,
\* and leaves the cursor at the end of the region.
C11_TableOfTerminatedRuns ==
    (TableRead /\ RegionOfRuns) =>
        /\ pos = data_start + Len(RegionBytes)
        /\ Len(string_table) = Len(RunsOf(RegionBytes))
        /\ \A j \in 1..Len(string_table) :
              /\ string_table[j].text = RunsOf(RegionBytes)[j]
              /\ string_table[j].hash = murmur_hash_and_flip(RunsOf(RegionBytes)[j])

\* C11 (witness): the region "a\0bb\0" was read: two entries, "a" and "bb",
\* and five bytes consumed.
C11_Witness ==
    /\ TableRead
    /\ RegionBytes = <<97, 0, 98, 98, 0>>
    /\ Len(string_table) = 2
    /\ string_table[1].text = <<97>>
    /\ string_table[2].text = <<98, 98>>
    /\ pos = data_start + 5

\* the kind the claim gives to a code
ClaimedKind(code) ==
    IF code = 1 THEN "SPOT" ELSE IF code = 3 THEN "AREA" ELSE IF code = 4 THEN "SUN" ELSE "POINT"

\* the block at the cursor of the light decoder can be read in full, and
\* create_light does not divide by a zero outer cone angle
LightBlockReadable ==
    /\ pc = "L_blocks"
    /\ index < block_count
    /\ Avail(f, pos, LightNeededBytes)
    /\ ~(U32At(f, pos + 36) = 1 /\ U32At(f, pos + 196) = 0)

\* C12: the light of a block has exactly one kind, the one the claim gives
\* to the block's code (0 and 2 POINT, 1 SPOT, 3 AREA, 4 SUN, every other
\* code POINT), and a code outside 0..4 causes no failure: the block gives
\* a light and the decode goes on.
C12_LightKindTotal ==
    [][LightBlockReadable =>
        /\ Len(lights') = Len(lights) + 1
        /\ lights'[Len(lights')].light_type = ClaimedKind(U32At(f, pos + 36))
        /\ lights'[Len(lights')].light_type \in {"POINT", "SPOT", "AREA", "SUN"}
        /\ err' = "none"
        /\ pc' = "L_blocks"]_vars

\* C12 (witness): a block with the unrecognized code 7 was decoded into a
\* POINT light, without an error.
C12_Witness ==
    /\ pc = "L_blocks"
    /\ index >= 1
    /\ U32At(f, pos - LightBlockBytes + 36) = 7
    /\ lights[index].light_type = "POINT"
    /\ err = "none"

\* C13: every decoded light has area_size if and only if its kind is AREA
\* and spot_cone if and only if its kind is SPOT; a file of one AREA block
\* gives exactly one light, with area_size and without spot_cone.
C13_ExtentIffKind ==
    /\ \A i \in 1..Len(lights) :
          /\ lights[i].area_size.has <=> lights[i].light_type = "AREA"
          /\ lights[i].spot_cone.has <=> lights[i].light_type = "SPOT"
    /\ (/\ pc = "L_blocks"
        /\ block_count = 1
        /\ index = 1
        /\ U32At(f, pos - LightBlockBytes + 36) = 3)
       => (/\ Len(lights) = 1
           /\ lights[1].area_size.has
           /\ ~lights[1].spot_cone.has)

\* C13 (witness): a file of one AREA block was decoded to its end.
C13_Witness ==
    /\ pc = "L_blocks"
    /\ block_count = 1
    /\ index = 1
    /\ U32At(f, pos - LightBlockBytes + 36) = 3
    /\ lights[1].area_size = Pair(20, 21)
    /\ lights[1].spot_cone = NoPair

\* the number of complete blocks the file holds after its secondary header
CompleteBlocks ==
    LET first == pos - index * LightBlockBytes
    IN  IF f.len < first THEN 0 ELSE (f.len - first) \div LightBlockBytes

\* C14 (as claimed): a light file whose declared block count exceeds the
\* number of complete blocks it holds is not decoded to its end: the decode
\* fails before.
C14_DeclaredBlocksComplete ==
    (pc = "L_blocks" /\ index >= block_count) => block_count <= CompleteBlocks

\* the mapped path with its trailing ".bitmap" rewritten to ".png"
TrailingRewritten(path) == SubSeq(path, 1, Len(path) - Len(DotBitmap)) \o DotPng

\* C15 (as claimed): the bitmap parameter a record gives has the texture
\* path base_texture_path joined with the mapped path in which only the
\* trailing ".bitmap" is rewritten to ".png", and that path exists.
C15_OnlyTrailingExtensionRewritten ==
    (/\ pc \in {"blocks", "loop", "done"}
     /\ recordOffsets # <<>>
     /\ parameters.has
     /\ parameters.val.type = "bitmap") =>
        LET id == U32At(f, recordOffsets[Len(recordOffsets)] + 24)
        IN  /\ parameters.val.value
                  = JoinTexturePath(base_texture_path, TrailingRewritten(id_mapping[id].path))
            /\ PathExists(parameters.val.value)

\* C16: what a decode gives depends on the decoded file alone, the ID
\* mapping and the existing paths being fixed: whatever was decoded before
\* it, a material decode ends with the error, the shader name and the
\* parameters that process_binary_file gives for the file, and a light
\* decode with the error and the lights that the file gives; so two
\* decodes of one buffer give identical results.
C16_DecodeIsFunctionOfFile ==
    /\ (selected_files = 0 /\ f # NoFile /\ pc \in {"loop", "done"}) =>
          [err |-> err, builder |-> builder] = process_binary_file(f)
    /\ (selected_files > 0 /\ f # NoFile /\ pc \in {"L_file", "done"}
          /\ err # "FileNotFoundError") =>
          [err |-> err, lights |-> lights] = LightsOfFile(f)

\* C16 (witness): a material file was decoded after another decode had
\* stored parameters, and gave the shader name and the parameters of the
\* file.
C16_Witness ==
    /\ pc = "done"
    /\ Len(outcomes) = 2
    /\ outcomes[1].result = "decoded"
    /\ outcomes[2].result = "decoded"
    /\ nodeTree = [m \in Materials |-> "built"]
    /\ builder.called
    /\ DOMAIN builder.parameters = {NameA}
    /\ builder.parameters[NameA].type = "bitmap"

\* C17: in one run of main, each material name is looked up and decoded at
\* most once, however many slots and objects hold it, and the run starts
\* with no material processed.
C17_EachMaterialOnce ==
    /\ \A i, j \in 1..Len(outcomes) : outcomes[i].name = outcomes[j].name => i = j
    /\ processed_materials = {outcomes[i].name : i \in 1..Len(outcomes)}
    /\ pc = "idle" => processed_materials = {}

\* C17 (witness): main is over for two objects that hold the same material,
\* which was decoded once.
C17_Witness ==
    /\ pc = "done"
    /\ objects = <<<<"m1">>, <<"m1">>>>
    /\ Len(outcomes) = 1
    /\ outcomes[1] = [name |-> "m1", result |-> "decoded"]
    /\ slotIdx = 3

\* the lines of filepaths.txt that write_to_file writes for a tag
TagLines == {write_line(t) : t \in ListedTags}

\* the tag a line was written from
TagOf(line) == CHOOSE t \in ListedTags : write_line(t) = line

\* the last line read so far that was written for the ID n
LastLineOf(n) ==
    SeqMax({j \in 1..(lineNo - 1) :
               filepaths_txt[j] \in TagLines /\ TagOf(filepaths_txt[j]).id = n})

\* C18: load_id_mapping takes both line formats: after the lines read so
\* far, the mapping has an entry exactly for the IDs of the lines written
\* in either format, the entry of an ID has the path, the curve and the
\* integer normalized flag of the last line read for that ID (curve and
\* normalized absent for a line without them), and no line of either
\* format raises.
C18_BothLineFormatsLoaded ==
    /\ pc \in {"mapping", "mapped"} =>
          /\ DOMAIN loaded = {TagOf(filepaths_txt[j]).id :
                                 j \in {k \in 1..(lineNo - 1) : filepaths_txt[k] \in TagLines}}
          /\ \A n \in DOMAIN loaded :
                LET t == TagOf(filepaths_txt[LastLineOf(n)])
                IN  loaded[n] = [path |-> t.path, curve |-> t.curve, normalized |-> t.normalized]
    /\ err = "ValueError" => filepaths_txt[lineNo] \notin TagLines

\* C18 (witness): a file of a bitmap line for ID 2, a line without curve
\* for ID 1 and a second bitmap line for ID 2 was loaded.
C18_Witness ==
    /\ pc = "mapped"
    /\ Len(filepaths_txt) = 3
    /\ filepaths_txt[1] = write_line([id |-> Ids.kept, path |-> BitmapKeptPath,
                                       curve |-> <<"s">>, normalized |-> 1])
    /\ filepaths_txt[2] = write_line([id |-> Ids.shader, path |-> ShaderPath,
                                       curve |-> <<>>, normalized |-> NoneInt])
    /\ filepaths_txt[3] = write_line([id |-> Ids.kept, path |-> BitmapMissingPath,
                                       curve |-> <<"l">>, normalized |-> 0])
    /\ DOMAIN loaded = {Ids.shader, Ids.kept}
    /\ loaded[Ids.kept] = [path |-> BitmapMissingPath, curve |-> <<"l">>, normalized |-> 0]
    /\ loaded[Ids.shader] = [path |-> ShaderPath, curve |-> <<>>, normalized |-> NoneInt]

\* C19 (as claimed): from the start of a material decode to its end, no
\* step changes the scene: no node tree is rebuilt and
\* create_shader_in_blender is not called.
C19_DecodeLeavesScene ==
    [][(pc \in {"header", "strings", "secondary", "blocks"}) =>
          (nodeTree' = nodeTree /\ builder' = builder)]_vars

\* C20 (as claimed): when read_string_table returns, the cursor is at
\* data_start + length, the declared end of the table, and the skips that
\* follow start from there.
C20_CursorAtDeclaredEnd ==
    /\ TableRead => pos = data_end
    /\ pc = "secondary" => pos = data_end + u32_values[8] + (u32_values[1] - 1) * 52

\* C21: when the input ends before the declared length of the string table
\* has been consumed (the table's offset may lie beyond the end of the
\* file), the decode fails with a truncated-input error and appends no
\* entry.
C21_TruncatedTableFails ==
    [][(pc = "strings" /\ pos < data_end /\ pos >= f.len)
          => (err' = "struct.error" /\ string_table' = string_table)]_vars

\* where the light decoder reads the first block of the open file
FirstLightBlock == HeaderEnd + TotalSkip(HeaderCounts(f)) + 32 + 4 + 12

\* the open light file declares n blocks and holds n complete blocks
DeclaresCompleteBlocks(n) ==
    /\ Avail(f, HeaderStart, 4 * HeaderCount)
    /\ Avail(f, FirstLightBlock - 16, 4)
    /\ U32At(f, FirstLightBlock - 16) = n
    /\ f.len >= FirstLightBlock + 496 * n

\* C22 (as claimed): when the decode of a light file that declares n blocks
\* and holds n complete blocks is over, it has given exactly n lights in
\* record order, the light of block k being read at first-block offset +
\* 496 * k: position at +4, quaternion at +16, kind code at +36, colour and
\* intensity at +40, area width and height at +180, spot cone at +192.
C22_CompleteBlocksAllDecoded ==
    (/\ selected_files > 0
     /\ f # NoFile
     /\ err # "FileNotFoundError"
     /\ pc \in {"L_file", "done"}
     /\ DeclaresCompleteBlocks(block_count)) =>
        /\ Len(lights) = block_count
        /\ \A k \in 0..(block_count - 1) :
              LET b == FirstLightBlock + 496 * k
                  l == lights[k + 1]
              IN  /\ l.location = <<U32At(f, b + 4), U32At(f, b + 8), U32At(f, b + 12)>>
                  /\ l.rotation_values = <<U32At(f, b + 16), U32At(f, b + 20),
                                           U32At(f, b + 24), U32At(f, b + 28)>>
                  /\ l.light_type = ClaimedKind(U32At(f, b + 36))
                  /\ l.color = <<U32At(f, b + 40), U32At(f, b + 44), U32At(f, b + 48)>>
                  /\ l.intensity = U32At(f, b + 52)
                  /\ l.area_size.has => l.area_size.val = <<U32At(f, b + 180), U32At(f, b + 184)>>
                  /\ l.spot_cone.has => l.spot_cone.val = <<U32At(f, b + 192), U32At(f, b + 196)>>

\* C23 (as claimed): in every material decoder of the repository, the
\* parameter a colour record (parameter_type 4) gives holds the four floats
\* reordered from the file's A, R, G, B to R, G, B, A: component 0 is the
\* second float read, 1 the third, 2 the fourth and 3 the first.
C23_ColorEmittedRGBA ==
    (recordOffsets # <<>> /\ parameter_type = 4 /\ parameters.has) =>
        LET r == recordOffsets[Len(recordOffsets)]
        IN  parameters.val.value
                = <<U32At(f, r + 52), U32At(f, r + 56), U32At(f, r + 60), U32At(f, r + 48)>>

\* the five parameter types process_block has a branch for
RecognizedTypes == {0, 1, 2, 3, 4}

\* where the cursor was after record j of the records processed so far
AfterRecord(j) == IF j < Len(recordOffsets) THEN recordOffsets[j + 1] ELSE pos

\* C24: every record of one of the five recognized types advances the
\* cursor by 232 bytes, whether or not its name matched a string-table
\* entry and whether or not its bitmap was dropped; so after j records of
\* recognized types the cursor is at the first record's offset + 232 * j.
C24_RecordAdvances232 ==
    (pc = "blocks") =>
        /\ Len(recordOffsets) = blk
        /\ \A j \in 1..blk :
              U32At(f, recordOffsets[j] + 4) \in RecognizedTypes
                  => AfterRecord(j) = recordOffsets[j] + 232
        /\ (blk >= 1 /\ \A j \in 1..blk : U32At(f, recordOffsets[j] + 4) \in RecognizedTypes)
              => pos = recordOffsets[1] + 232 * blk

\* C24 (witness): two records were processed, a bitmap that was dropped and
\* a colour whose name is in no entry of the string table, and the cursor
\* is 464 bytes after the first record.
C24_Witness ==
    /\ pc = "blocks"
    /\ blk = 2
    /\ DroppedBitmapAt(f, recordOffsets[1])
    /\ U32At(f, recordOffsets[2] + 4) = 4
    /\ ~matching_string.found
    /\ all_parameters = <<>>
    /\ pos = recordOffsets[1] + 464

\* the entries of the string table whose hash is h
EntriesWithHash(h) == {i \in 1..Len(string_table) : string_table[i].hash = h}

\* C25 (as claimed): after a colour, real, boolean or int record whose
\* hashed name is the hash of at least one entry of the string table, the
\* parameters have an entry keyed by the text of the first such entry in
\* table order, also when that text is empty and when several entries have
\* that hash.
C25_MatchedRecordStored ==
    (/\ pc = "blocks"
     /\ blk >= 1
     /\ U32At(f, recordOffsets[blk] + 4) \in {1, 2, 3, 4}
     /\ EntriesWithHash(U32At(f, recordOffsets[blk])) # {}) =>
        string_table[SeqMin(EntriesWithHash(U32At(f, recordOffsets[blk])))].text
            \in DOMAIN all_parameters

\* C26 (as claimed): when the import of a light file fails, at a block, in
\* a header or at open(), nothing made for that file stays linked in the
\* scene: the collections of the scene are those of the files imported
\* before it.
C26_FailedFileLeavesNothing ==
    (pc = "done" /\ report = "ERROR") => Len(collections) = fileIdx - 1

\* C27 (as claimed): whatever the fields of a block that can be read in
\* full, a Spot block whose outer cone angle is 0 included, create_light
\* gives its light and the decode goes on with the next block.
C27_CreateLightNeverFails ==
    [][(/\ pc = "L_blocks"
        /\ index < block_count
        /\ Avail(f, pos, LightNeededBytes))
       => (/\ lights' = Append(lights, LightArguments(f, pos, index))
           /\ index' = index + 1
           /\ err' = "none"
           /\ pc' = "L_blocks")]_vars

\* the materials of the list that carry both properties and the tag t
Carrying(t) ==
    {i \in 1..Len(data_materials) :
        HasBoth(data_materials[i]) /\ data_materials[i].tag_name = t}

\* C28: after rename_and_merge_materials at most one material carrying both
\* 'tag_name' and 'material_name' remains for each tag_name, the first one
\* of the list (the materials are numbered in the order of the list the
\* operator was given): every later one has been removed, adjacent
\* duplicates included.
C28_OneMaterialPerTag ==
    /\ (pc \in {"C_merge", "C_rename", "cleaned"}) =>
          \A t \in DOMAIN materials_by_tag :
              /\ \E i \in Carrying(t) : data_materials[i].id = materials_by_tag[t]
              /\ \A i \in Carrying(t) : materials_by_tag[t] <= data_materials[i].id
    /\ (pc \in {"C_rename", "cleaned"}) =>
          \A t \in {1, 2} :
              /\ \A i, j \in Carrying(t) : i = j
              /\ Carrying(t) # {} => t \in DOMAIN materials_by_tag

\* C28 (witness): the operator has returned on a list of four materials:
\* the first three carried the same tag_name, the second and the third
\* (adjacent duplicates) were removed, the fourth has no material_name.
C28_Witness ==
    /\ pc = "cleaned"
    /\ Len(data_materials) = 2
    /\ {data_materials[i].id : i \in 1..2} = {1, 4}
    /\ HasBoth(MaterialOf(data_materials, 1))
    /\ ~HasBoth(MaterialOf(data_materials, 4))
    /\ materials_by_tag = (MaterialOf(data_materials, 1).tag_name :> 1)

\* the materials a step removes from the list
RemovedByStep ==
    {data_materials[i].id : i \in 1..Len(data_materials)}
        \ {data_materials'[i].id : i \in 1..Len(data_materials')}

\* C29 (as claimed): when the merge removes a material, every slot that
\* used it, of an object of any type, uses the material kept for its
\* tag_name from then on.
C29_SlotsFollowSurvivor ==
    [][\A m \in RemovedByStep :
          \A o \in 1..Len(data_objects) :
              \A s \in 1..Len(data_objects[o].material_slots) :
                  data_objects[o].material_slots[s] = m
                      => data_objects'[o].material_slots[s]
                            = materials_by_tag[MaterialOf(data_materials, m).tag_name]]_vars

\* C30 (as claimed): read_string ends for every content and offset: a read
\* at the end of the names file, where no null is left, makes it return.
C30_ReadStringStopsAtEnd ==
    [][(pc = "F_read" /\ pos >= names.len) => pc' = "F_returned"]_vars

====
